---- MODULE Spec2Model ----
(***************************************************************************)
(* A model of the BRD test automation pipeline:                            *)
(*   - the Automation Execution Engine                                     *)
(*       brd-test-executor/app/automation/playwright_runner.py             *)
(*     (Spec for run_single_test, SpecLogin for login selector by          *)
(*     selector)                                                           *)
(*   - the Batch Test-Case Generation Engine                               *)
(*       brd-testcase-automation/app/services/chatgpt_service.py (SpecGen) *)
(*   - the Result Reporter                                                 *)
(*       brd-test-executor/app/automation/result_reporter.py               *)
(*     (SpecReporter)                                                      *)
(*   - the Sheet Reader                                                    *)
(*       brd-test-executor/app/automation/sheet_reader.py (SpecReader)     *)
(*   - the module classifier of the code generator                         *)
(*       brd-test-executor/app/automation/code_generator.py                *)
(*     (SpecClassifier)                                                    *)
(*   - the coverage estimate of the generation engine                      *)
(*       chatgpt_service.py, estimate_required_test_cases (SpecEstimator)  *)
(*   - the configuration stores and their singleton accessors              *)
(*       brd-test-executor/app/automation/locator_manager.py               *)
(*       brd-test-executor/app/automation/url_manager.py                   *)
(*     (SpecStore for the lookups, SpecSingleton for the accessors)        *)
(*   - the code generator, from request to the run of the saved file       *)
(*       brd-test-executor/app/automation/code_generator.py (SpecCodeGen)  *)
(*   - batch code generation, generate_batch of the same file (SpecBatch)  *)
(* Each component has its own specification; the variables of the other    *)
(* components stay at their initial values.                                *)
(***************************************************************************)
EXTENDS Integers, Sequences, FiniteSets, TLC

\* ------------------------------------------------------------------ bounds
\* run_single_test calls made on one PlaywrightRunner instance
MaxCalls == 2

\* ------------------------------------------------------- shared vocabulary
\* Python's None
None == "None"

\* =========================================================================
\*  Automation Execution Engine (playwright_runner.py)
\* =========================================================================

VARIABLES
    playwright,     \* self.playwright is set
    browser,        \* self.browser is set (truthy)
    context,        \* self.context is set
    page,           \* self.page is set
    pc,             \* position inside run_single_test: idle/start/login/exec/ret
    cur,            \* arguments and environment of the call in progress
    result,         \* the result dict under construction
    lastResult,     \* what the last finished call returned to its caller
    calls,          \* run_single_test calls begun so far
    startCalls,     \* start_browser invocations so far
    launchCount,    \* browsers actually launched (browser_type.launch returned)
    loginCount,     \* login invocations so far
    startedOk,      \* some start_browser call of this instance returned success
    loginOk,        \* some login call of this instance returned success
    settled,        \* startedOk /\ loginOk held when the call in progress began
    hist            \* what the call in progress did: start_browser and login
                    \* called, execute_test_code reached, entry point invoked,
                    \* screenshot attempts, the branch taken and its inputs,
                    \* and the time the finally block measured

runnerVars == <<playwright, browser, context, page, pc, cur, result, lastResult,
                calls, startCalls, launchCount, loginCount, startedOk, loginOk,
                settled, hist>>

\* state of the Batch Test-Case Generation Engine (chatgpt_service.py)
VARIABLES
    gpc,            \* position inside generate_test_cases: idle/call/parse/done
    batch,          \* the batch in progress: 1, 2, 3, or 0 in single-batch mode
    gArgs,          \* the arguments target_count and batch_mode
    requests,       \* the requests sent to the model service, in order
    response,       \* the reply text waiting to be parsed
    parsed,         \* per batch, the records its reply parsed into
    all_test_cases, \* the list under construction
    batch_actual,   \* <<batch1_actual, batch2_actual, batch3_actual>>
    failedAt,       \* the batch whose call or parse failed, 0 when none has
    gRet            \* the tuple generate_test_cases returned

genVars == <<gpc, batch, gArgs, requests, response, parsed, all_test_cases,
             batch_actual, failedAt, gRet>>

\* state of one PlaywrightRunner.login call, selector by selector
VARIABLES
    lpc,            \* position inside login: idle/chain/wait/done
    chain,          \* the fallback chain in progress: 1 username, 2 password,
                    \* 3 login button; 0 outside the chains
    sel,            \* index in the chain's list of the next selector to try
    filled,         \* the flags username_filled, password_filled, login_clicked
    tried,          \* every selector attempt so far, in order
    observed,       \* the values read from self.page.url, in order
    lshots,         \* the screenshot attempts login made
    lret            \* the tuple login returned

loginVars == <<lpc, chain, sel, filled, tried, observed, lshots, lret>>

\* state of one ResultReporter and of the worksheet it writes to
VARIABLES
    rpc,            \* position inside report_result:
                    \* new/idle/sheet/ensure/status/error/shot
    header_row,     \* row 3 of the worksheet, columns 1..8
    cells,          \* columns 6, 7, 8 of the data rows
    rcall,          \* the arguments of the call in progress and the cells it met
    writes,         \* the data-row update_cell calls of the call in progress
    nreports,       \* report_result calls begun so far
    reported,       \* the last finished report_result call
    ensured         \* the last _ensure_result_columns run, and how the run
                    \* before it ended

reporterVars == <<rpc, header_row, cells, rcall, writes, nreports, reported, ensured>>

\* state of one SheetReader and of the configuration it runs under
VARIABLES
    rdpc,               \* boot until the configuration is loaded, ready until
                        \* read_test_cases has been called, then done
    TEST_CASE_PREFIX,   \* Config.TEST_CASE_PREFIX
    spreadsheet,        \* self.spreadsheet is set
    read_in,            \* the worksheet and the remote outcomes of the call
    read_out            \* the tuple the call returned

readerVars == <<rdpc, TEST_CASE_PREFIX, spreadsheet, read_in, read_out>>

\* the last CodeGenerator._detect_module call
VARIABLES
    classified,     \* _detect_module has been called
    module_in,      \* the test case dict it was called with
    module_out      \* the module it returned

classifierVars == <<classified, module_in, module_out>>

\* the last ChatGPTService.estimate_required_test_cases call
VARIABLES
    estimated,      \* estimate_required_test_cases has been called
    est_in,         \* its arguments and what the model service did
    est_out         \* what it returned, or that it raised

estimatorVars == <<estimated, est_in, est_out>>

\* the module-level singletons of locator_manager.py and url_manager.py and
\* the threads of the process that call their accessors
VARIABLES
    singleton,      \* _locator_manager and _url_manager: 0 for None, else the
                    \* instance assigned
    instances,      \* number of manager objects constructed so far, per accessor
    assigns,        \* number of assignments to each module-level name
    loads,          \* number of load_locators / load_urls runs
    tpc,            \* where each thread is in the accessor
    tmgr,           \* the accessor each thread is in
    tlocal,         \* the object a thread has constructed and not yet assigned
    received,       \* the instances the accessor has returned, per accessor
    ngets           \* accessor calls started

singletonVars == <<singleton, instances, assigns, loads, tpc, tmgr, tlocal, received,
                   ngets>>

\* one LocatorManager, one URLManager and the last lookup made on them
VARIABLES
    lm_built,       \* LocatorManager.__init__ has run
    locators,       \* LocatorManager.locators
    um_built,       \* URLManager.__init__ has run
    urls,           \* URLManager.urls
    base_url,       \* URLManager.base_url
    looked          \* the last lookup: method, arguments, and what it returned
                    \* or raised

storeVars == <<lm_built, locators, um_built, urls, base_url, looked>>

\* one CodeGenerator working on one test case: the code is generated, saved
\* and run
VARIABLES
    cpc,            \* new, ready (the generator is constructed), generated,
                    \* saved, ran
    gen_in,         \* the test case handed to generate_code
    sent,           \* the request generate_code sent to the model service
    gen_out,        \* the tuple generate_code returned
    saved,          \* the file save_generated_code wrote and what it returned
    run_out         \* the result of running the saved file

codegenVars == <<cpc, gen_in, sent, gen_out, saved, run_out>>

\* one generate_batch call of a CodeGenerator
VARIABLES
    bpc,            \* position inside generate_batch: idle, loop (between two
                    \* iterations), call (generate_code is running), done
    batch_args,     \* the arguments test_cases and max_count
    started,        \* the test ids generate_code was called for, in call order
    results,        \* the local list results
    success_count,  \* the local counter success_count
    batch_ret       \* the tuple returned

batchVars == <<bpc, batch_args, started, results, success_count, batch_ret>>

\* what the actions of each component leave alone
notRunner == <<genVars, loginVars, reporterVars, readerVars, classifierVars, estimatorVars, singletonVars, storeVars, codegenVars, batchVars>>
notGen == <<runnerVars, loginVars, reporterVars, readerVars, classifierVars, estimatorVars, singletonVars, storeVars, codegenVars, batchVars>>
notLogin == <<runnerVars, genVars, reporterVars, readerVars, classifierVars, estimatorVars, singletonVars, storeVars, codegenVars, batchVars>>
notReporter == <<runnerVars, genVars, loginVars, readerVars, classifierVars, estimatorVars, singletonVars, storeVars, codegenVars, batchVars>>
notReader == <<runnerVars, genVars, loginVars, reporterVars, classifierVars, estimatorVars, singletonVars, storeVars, codegenVars, batchVars>>
notClassifier == <<runnerVars, genVars, loginVars, reporterVars, readerVars, estimatorVars, singletonVars, storeVars, codegenVars, batchVars>>
notEstimator == <<runnerVars, genVars, loginVars, reporterVars, readerVars, classifierVars, singletonVars, storeVars, codegenVars, batchVars>>
notSingleton == <<runnerVars, genVars, loginVars, reporterVars, readerVars, classifierVars, estimatorVars, storeVars, codegenVars, batchVars>>
notStore == <<runnerVars, genVars, loginVars, reporterVars, readerVars, classifierVars, estimatorVars, singletonVars, codegenVars, batchVars>>
notCodeGen == <<runnerVars, genVars, loginVars, reporterVars, readerVars, classifierVars, estimatorVars, singletonVars, storeVars, batchVars>>
notBatch == <<runnerVars, genVars, loginVars, reporterVars, readerVars, classifierVars, estimatorVars, singletonVars, storeVars, codegenVars>>

\* test ids handed to run_single_test
TestIds == {"TC001", "Tc002"}

\* str.lower() on the test ids of the model
Lower(id) == CASE id = "TC001" -> "tc001"
               [] id = "Tc002" -> "tc002"
               [] OTHER -> id

\* the entry point name execute_test_code resolves
TestFunctionName(id) == "test_" \o Lower(id)

\* the code_file argument callers pass for a test id
CodeFile(id) == "tests/generated/test_" \o Lower(id) \o ".py"

\* state of the code artifact at code_file when execute_test_code looks at it:
\*   missing    os.path.exists is false
\*   load_error spec_from_file_location / exec_module raises
\*   no_entry   the module loads but has no attribute test_<lowercased id>
\*   ok         the module exposes the entry point
ArtifactStates == {"missing", "load_error", "no_entry", "ok"}

\* texts of the exceptions collaborators raise
ExcTexts == {"E1", "E2"}

\* what awaiting the entry point under asyncio.wait_for produces:
\*   truthy / falsy   it returns a value
\*   expiry           the 120 s timer of wait_for fires
\*   raise_timeout    the entry point itself raises asyncio.TimeoutError
\*   raise_other      the entry point raises another Exception
EntryOutcomes ==
    [kind : {"truthy", "falsy", "expiry"}, text : {""}]
        \cup [kind : {"raise_timeout", "raise_other"}, text : ExcTexts]

\* how start_browser can end: the step that raises, or ok
StartOutcomes == {"fail_playwright", "fail_launch", "fail_context", "fail_page",
                  "fail_set_timeout", "ok"}

\* the return paths of login()
LoginPaths == {"already", "ok", "no_username", "no_password", "no_button",
               "still_on_login", "wait_timeout", "error"}

\* Config.SCREENSHOT_FOLDER
screenshot_dir == "screenshots/failures"

\* datetime.now().strftime("%Y%m%d_%H%M%S") at the time of the capture
Timestamp == "20260101_000000"

\* _capture_screenshot: filename and filepath
ScreenshotPath(test_id, reason) ==
    screenshot_dir \o "/" \o test_id \o "_" \o reason \o "_" \o Timestamp \o ".png"

\* _capture_screenshot: page.screenshot raises when there is no page object or
\* the browser refuses; the handler turns every exception into None
_capture_screenshot(test_id, reason, pageSet, shotOk) ==
    IF pageSet /\ shotOk THEN ScreenshotPath(test_id, reason) ELSE None

\* run_single_test: the result dict at entry
PendingResult(test_id) ==
    [test_id |-> test_id, status |-> "PENDING", error_message |-> None,
     screenshot_path |-> None, execution_time |-> 0]

\* a run_single_test that starts the browser on every call
NeedsStart_EveryCall(b) == TRUE

\* run_single_test: `if not self.browser`
NeedsStart(b) == ~b

\* the record of one screenshot attempt
Shot(test_id, reason, path) == [test_id |-> test_id, reason |-> reason, path |-> path]

\* hist at the start of a call
NoHist == [startCalled |-> FALSE, loginCalled |-> FALSE, executed |-> FALSE,
           invoked |-> FALSE, shots |-> <<>>, branch |-> "none",
           ep |-> None, e |-> None, path |-> None, elapsed |-> -1]

RunnerInit ==
    /\ playwright = FALSE
    /\ browser = FALSE
    /\ context = FALSE
    /\ page = FALSE
    /\ pc = "idle"
    /\ cur = [test_id |-> None, art |-> None]
    /\ result = PendingResult(None)
    /\ lastResult = PendingResult(None)
    /\ calls = 0
    /\ startCalls = 0
    /\ launchCount = 0
    /\ loginCount = 0
    /\ startedOk = FALSE
    /\ loginOk = FALSE
    /\ settled = FALSE
    /\ hist = NoHist

\* run_single_test, lines 334-346: build the PENDING result, note the start time,
\* and decide whether the browser has to be started
Call(test_id, art) ==
    /\ pc = "idle"
    /\ UNCHANGED notRunner
    /\ calls < MaxCalls
    /\ calls' = calls + 1
    /\ cur' = [test_id |-> test_id, art |-> art]
    /\ result' = PendingResult(test_id)
    /\ hist' = NoHist
    /\ settled' = (startedOk /\ loginOk)
    /\ pc' = IF NeedsStart(browser) THEN "start" ELSE "exec"
    /\ UNCHANGED <<playwright, browser, context, page, lastResult, startCalls,
                   launchCount, loginCount, startedOk, loginOk>>

\* start_browser: the fields assigned before the step that raises
\*   fail_playwright   async_playwright().start() raises (line 47)
\*   fail_launch       browser_type.launch raises (line 60)
\*   fail_context      browser.new_context raises (line 69)
\*   fail_page         context.new_page raises (line 77)
\*   fail_set_timeout  page.set_default_timeout raises (line 78)
StartFields(o) ==
    [playwright |-> o # "fail_playwright",
     browser    |-> o \in {"fail_context", "fail_page", "fail_set_timeout", "ok"},
     context    |-> o \in {"fail_page", "fail_set_timeout", "ok"},
     page       |-> o \in {"fail_set_timeout", "ok"}]

\* start_browser's return value
start_browser(o, e) ==
    IF o = "ok" THEN [success |-> TRUE, error |-> None]
    ELSE [success |-> FALSE, error |-> "Failed to start browser: " \o e]

\* run_single_test, lines 347-351
StartBrowser(o, e) ==
    /\ pc = "start"
    /\ UNCHANGED notRunner
    /\ startCalls' = startCalls + 1
    /\ LET f == StartFields(o)
           r == start_browser(o, e)
       IN /\ playwright' = (playwright \/ f.playwright)
          /\ browser' = (browser \/ f.browser)
          /\ context' = (context \/ f.context)
          /\ page' = (page \/ f.page)
          /\ launchCount' = IF f.browser THEN launchCount + 1 ELSE launchCount
          /\ startedOk' = (startedOk \/ r.success)
          /\ hist' = [hist EXCEPT !.startCalled = TRUE,
                                  !.branch = IF r.success THEN @ ELSE "start_failed"]
          /\ IF r.success
             THEN /\ pc' = "login"
                  /\ UNCHANGED result
             ELSE /\ pc' = "ret"
                  /\ result' = [result EXCEPT
                                  !.status = "FAIL",
                                  !.error_message = "Browser start failed: " \o r.error]
    /\ UNCHANGED <<cur, lastResult, calls, loginCount, loginOk, settled>>

\* login's return value on each of its return paths
login(path, e) ==
    CASE path \in {"already", "ok"} -> [success |-> TRUE, error |-> None]
      [] path = "no_username" ->
            [success |-> FALSE, error |-> "Could not find username input field"]
      [] path = "no_password" ->
            [success |-> FALSE, error |-> "Could not find password input field"]
      [] path = "no_button" ->
            [success |-> FALSE, error |-> "Could not find login button"]
      [] path = "still_on_login" ->
            [success |-> FALSE, error |-> "Login failed - still on login page"]
      [] path = "wait_timeout" ->
            [success |-> FALSE, error |-> "Login timeout: " \o e]
      [] path = "error" ->
            [success |-> FALSE, error |-> "Login error: " \o e]

\* the screenshot attempts login itself makes (line 212)
LoginShots(path, pageSet, shotOk) ==
    IF path = "still_on_login"
    THEN <<Shot("LOGIN", "still_on_login_page",
                _capture_screenshot("LOGIN", "still_on_login_page", pageSet, shotOk))>>
    ELSE <<>>

\* a login-failure branch that forgets to set the status
LoginFailedResult_NoStatus(res, error, screenshot_path) ==
    [res EXCEPT !.error_message = "Login failed: " \o error,
                !.screenshot_path = screenshot_path]

\* run_single_test, lines 355-360: the result after a failed login
LoginFailedResult(res, error, screenshot_path) ==
    [res EXCEPT !.status = "FAIL",
                !.error_message = "Login failed: " \o error,
                !.screenshot_path = screenshot_path]

\* run_single_test, lines 353-360
Login(path, e, shotOk1, shotOk2) ==
    /\ pc = "login"
    /\ UNCHANGED notRunner
    /\ loginCount' = loginCount + 1
    /\ LET r == login(path, e)
           s1 == LoginShots(path, page, shotOk1)
       IN /\ loginOk' = (loginOk \/ r.success)
          /\ IF r.success
             THEN /\ pc' = "exec"
                  /\ hist' = [hist EXCEPT !.loginCalled = TRUE, !.path = path,
                                          !.e = e, !.shots = @ \o s1]
                  /\ UNCHANGED result
             ELSE LET p == _capture_screenshot(cur.test_id, "login_failed", page, shotOk2)
                  IN /\ pc' = "ret"
                     /\ result' = LoginFailedResult(result, r.error, p)
                     /\ hist' = [hist EXCEPT
                                  !.loginCalled = TRUE,
                                  !.path = path,
                                  !.e = e,
                                  !.branch = "login_failed",
                                  !.shots = @ \o s1
                                              \o <<Shot(cur.test_id, "login_failed", p)>>]
    /\ UNCHANGED <<playwright, browser, context, page, cur, lastResult, calls,
                   startCalls, launchCount, startedOk, settled>>

\* execute_test_code, line 280: `except asyncio.TimeoutError` catches by exception
\* type, so it takes the timer's expiry and a TimeoutError raised by the entry
\* point alike
TimeoutHandlerCatches(kind) == kind \in {"expiry", "raise_timeout"}

\* execute_test_code, lines 264-290: the entry point has been loaded and is
\* awaited with the page under asyncio.wait_for(timeout=120)
RunEntryPoint(test_id, ep, pageSet, shotOk) ==
    CASE ep.kind = "truthy" ->
            [success |-> TRUE, error |-> None, screenshot |-> None,
             invoked |-> TRUE, shots |-> <<>>, branch |-> "passed"]
      [] ep.kind = "falsy" ->
            LET p == _capture_screenshot(test_id, "assertion_failed", pageSet, shotOk)
            IN [success |-> FALSE, error |-> "Test assertions failed", screenshot |-> p,
                invoked |-> TRUE, shots |-> <<Shot(test_id, "assertion_failed", p)>>,
                branch |-> "assertion_failed"]
      [] TimeoutHandlerCatches(ep.kind) ->
            LET p == _capture_screenshot(test_id, "timeout", pageSet, shotOk)
            IN [success |-> FALSE, error |-> "Test execution timeout (120s)",
                screenshot |-> p, invoked |-> TRUE,
                shots |-> <<Shot(test_id, "timeout", p)>>, branch |-> "timeout"]
      [] OTHER ->
            LET p == _capture_screenshot(test_id, "error", pageSet, shotOk)
            IN [success |-> FALSE, error |-> ep.text, screenshot |-> p,
                invoked |-> TRUE, shots |-> <<Shot(test_id, "error", p)>>,
                branch |-> "error"]

\* an execute_test_code that resolves the entry point inside the inner try, so a
\* missing entry point lands in the "error" handler and takes a screenshot
execute_test_code_LateResolve(test_id, art, e, ep, pageSet, shotOk) ==
    CASE art = "missing" ->
            [success |-> FALSE, error |-> "Code file not found: " \o CodeFile(test_id),
             screenshot |-> None, invoked |-> FALSE, shots |-> <<>>,
             branch |-> "file_missing"]
      [] art = "load_error" ->
            [success |-> FALSE, error |-> "Failed to execute test: " \o e,
             screenshot |-> None, invoked |-> FALSE, shots |-> <<>>,
             branch |-> "load_failed"]
      [] art = "no_entry" ->
            LET p == _capture_screenshot(test_id, "error", pageSet, shotOk)
            IN [success |-> FALSE, error |-> e, screenshot |-> p, invoked |-> FALSE,
                shots |-> <<Shot(test_id, "error", p)>>, branch |-> "no_entry"]
      [] OTHER -> RunEntryPoint(test_id, ep, pageSet, shotOk)

\* execute_test_code: the (success, error_message, screenshot_path) it returns,
\* with whether the entry point was invoked and which screenshots were attempted
execute_test_code(test_id, art, e, ep, pageSet, shotOk) ==
    CASE art = "missing" ->
            [success |-> FALSE, error |-> "Code file not found: " \o CodeFile(test_id),
             screenshot |-> None, invoked |-> FALSE, shots |-> <<>>,
             branch |-> "file_missing"]
      [] art = "load_error" ->
            [success |-> FALSE, error |-> "Failed to execute test: " \o e,
             screenshot |-> None, invoked |-> FALSE, shots |-> <<>>,
             branch |-> "load_failed"]
      [] art = "no_entry" ->
            [success |-> FALSE,
             error |-> "Test function '" \o TestFunctionName(test_id)
                          \o "' not found in module",
             screenshot |-> None, invoked |-> FALSE, shots |-> <<>>,
             branch |-> "no_entry"]
      [] OTHER -> RunEntryPoint(test_id, ep, pageSet, shotOk)

\* a run_single_test in which a failed capture replaces the test's own error
ExecutedResult_ShotMasks(res, r) ==
    IF r.success
    THEN [res EXCEPT !.status = "PASS"]
    ELSE [res EXCEPT !.status = "FAIL",
                     !.error_message = IF r.screenshot = None /\ r.shots # <<>>
                                       THEN "Failed to capture screenshot"
                                       ELSE r.error,
                     !.screenshot_path = r.screenshot]

\* a run_single_test that keeps a screenshot of the page of a passed test
ExecutedResult_PassShot(res, r) ==
    IF r.success
    THEN [res EXCEPT !.status = "PASS",
                     !.screenshot_path = ScreenshotPath(res.test_id, "passed")]
    ELSE [res EXCEPT !.status = "FAIL",
                     !.error_message = r.error,
                     !.screenshot_path = r.screenshot]

\* run_single_test, lines 365-370: the result after execute_test_code returned
ExecutedResult(res, r) ==
    IF r.success
    THEN [res EXCEPT !.status = "PASS"]
    ELSE [res EXCEPT !.status = "FAIL",
                     !.error_message = r.error,
                     !.screenshot_path = r.screenshot]

\* run_single_test, lines 362-370
ExecuteTestCode(e, ep, shotOk) ==
    /\ pc = "exec"
    /\ UNCHANGED notRunner
    /\ LET r == execute_test_code(cur.test_id, cur.art, e, ep, page, shotOk)
       IN /\ result' = ExecutedResult(result, r)
          /\ hist' = [hist EXCEPT !.executed = TRUE,
                                  !.invoked = r.invoked,
                                  !.shots = @ \o r.shots,
                                  !.branch = r.branch,
                                  !.ep = ep,
                                  !.e = e]
    /\ pc' = "ret"
    /\ UNCHANGED <<playwright, browser, context, page, cur, lastResult, calls,
                   startCalls, launchCount, loginCount, startedOk, loginOk, settled>>

\* seconds between start_time and end_time, as the model measures them
MaxElapsed == 1

\* run_single_test, lines 377-381: the finally block stamps the execution time
\* and the result goes back to the caller.  The handler of lines 372-375 has no
\* step of its own: start_browser, login, execute_test_code and
\* _capture_screenshot each turn every Exception into a return value, so no
\* Exception reaches it.
Return(elapsed) ==
    /\ pc = "ret"
    /\ UNCHANGED notRunner
    /\ lastResult' = [result EXCEPT !.execution_time = elapsed]
    /\ result' = lastResult'
    /\ pc' = "idle"
    /\ hist' = [hist EXCEPT !.elapsed = elapsed]
    /\ UNCHANGED <<playwright, browser, context, page, cur, calls, startCalls,
                   launchCount, loginCount, startedOk, loginOk, settled>>

\* =========================================================================
\*  Batch Test-Case Generation Engine (chatgpt_service.py)
\* =========================================================================

\* elements of a reply's JSON array
MaxReplyLen == 2

\* a dict-valued slot holding Python's None
NoneDict == [none |-> TRUE]

\* target_count values callers pass
TargetCounts == {50, 69, 70, 90}

\* _parse_test_cases: required_fields
required_fields == {"description", "steps", "expected_result", "priority"}

\* the elements a reply's JSON array may hold. `json` is the JSON type of the
\* element: an object (`has` is the set of keys present), null, or a string
\* (here "n/a", which contains none of the field names)
ReplyItems ==
    {[json |-> "object", description |-> " a", steps |-> "s", expected_result |-> "r",
      priority |-> "high", has |-> required_fields],
     [json |-> "object", description |-> "b", steps |-> "s", expected_result |-> "r",
      priority |-> "Low", has |-> required_fields],
     [json |-> "object", description |-> "x", steps |-> "s", expected_result |-> "r",
      priority |-> "Low", has |-> required_fields \ {"steps"}],
     [json |-> "null", description |-> "", steps |-> "", expected_result |-> "",
      priority |-> "", has |-> {}],
     [json |-> "string", description |-> "", steps |-> "", expected_result |-> "",
      priority |-> "", has |-> {}]}

\* sequences over S of length at most n
SeqUpTo(S, n) == UNION {[1..k -> S] : k \in 0..n}

\* the texts the model service may reply with: no content (None), no '[' or ']'
\* at all, brackets around something json.loads rejects, or a JSON array of
\* objects
ReplyTexts ==
    [kind : {"no_content", "no_array"}, err : {""}, items : {<<>>}]
        \cup [kind : {"bad_json"}, err : {"E1"}, items : {<<>>}]
        \cup [kind : {"array"}, err : {""}, items : SeqUpTo(ReplyItems, MaxReplyLen)]

NoText == [kind |-> "none", err |-> "", items |-> <<>>]

\* what one chat.completions.create call can do: raise, or return a text
CallOutcomes ==
    [ok : {FALSE}, err : {"E1"}, text : {NoText}]
        \cup [ok : {TRUE}, err : {""}, text : ReplyTexts]

\* str.strip() on the field values of the model
Strip(v) == IF v = " a" THEN "a" ELSE v

\* str.capitalize() on the priorities of the model
Capitalize(v) == IF v = "high" THEN "High" ELSE v

\* _call_chatgpt: (success, response_text, error)
_call_chatgpt(o) ==
    IF o.ok
    THEN [success |-> TRUE, response |-> o.text, error |-> None]
    ELSE [success |-> FALSE, response |-> NoText,
          error |-> "ChatGPT API error: " \o o.err]

\* _parse_test_cases, lines 403-408: the record kept for a valid element
Normalized(tc) ==
    [description |-> Strip(tc.description),
     steps |-> Strip(tc.steps),
     expected_result |-> Strip(tc.expected_result),
     priority |-> Capitalize(Strip(tc.priority))]

\* line 397, `field not in tc`: a key test on a dict, a substring test on a
\* str, and a TypeError on None
FieldTestRaises(tc) == tc.json = "null"

\* line 397: the required fields tc lacks (none of the field names is a
\* substring of the string element "n/a")
MissingFields(tc) == required_fields \ tc.has

\* _parse_test_cases, lines 396-408: the valid elements, in order, when no
\* element makes the loop raise
RECURSIVE ValidCases(_)
ValidCases(items) ==
    IF items = <<>> THEN <<>>
    ELSE LET tc == Head(items)
             missing_fields == MissingFields(tc)
         IN IF missing_fields # {}
            THEN ValidCases(Tail(items))
            ELSE <<Normalized(tc)>> \o ValidCases(Tail(items))

\* _parse_test_cases: (success, test_cases, error). The loop of lines 396-408
\* leaves only at its end or by an exception, which line 425 turns into a
\* failure of the whole parse.
_parse_test_cases(text) ==
    CASE text.kind = "no_content" ->
            [success |-> FALSE, cases |-> <<>>,
             error |-> "Parsing error: 'NoneType' object has no attribute 'strip'"]
      [] text.kind = "no_array" ->
            [success |-> FALSE, cases |-> <<>>,
             error |-> "No JSON array found in response"]
      [] text.kind = "bad_json" ->
            [success |-> FALSE, cases |-> <<>>,
             error |-> "Failed to parse JSON: " \o text.err]
      [] OTHER ->
            IF \E i \in 1..Len(text.items) : FieldTestRaises(text.items[i])
            THEN [success |-> FALSE, cases |-> <<>>,
                  error |-> "Parsing error: argument of type 'NoneType' is not iterable"]
            ELSE LET valid_test_cases == ValidCases(text.items)
                 IN IF valid_test_cases = <<>>
                    THEN [success |-> FALSE, cases |-> <<>>,
                          error |-> "No valid test cases found after parsing"]
                    ELSE [success |-> TRUE, cases |-> valid_test_cases, error |-> None]

\* a / b rounded to the nearest integer, ties to even (Python's round)
RoundHalfEven(a, b) ==
    LET q == a \div b
        r == a % b
    IN IF 2 * r < b THEN q
       ELSE IF 2 * r > b THEN q + 1
       ELSE IF q % 2 = 0 THEN q ELSE q + 1

\* round((n / total) * 100, 1) if total > 0 else 0, in tenths of a percent
Percentage(n, total) == IF total > 0 THEN RoundHalfEven(1000 * n, total) ELSE 0

\* the literals 100.0 and 0.0, in tenths of a percent
Pct100 == 1000
Pct0 == 0

BatchEntry(name, count, percentage) ==
    [name |-> name, count |-> count, percentage |-> percentage]

\* lines 495-499 and 506-510: the breakdown when batch 2 failed
BreakdownBatch1Only(batch1_actual) ==
    [batch1_happy_path |-> BatchEntry("UI Happy Path (MainFlow)", batch1_actual, Pct100),
     batch2_validation |-> BatchEntry("UI Validation", 0, Pct0),
     batch3_edge_cases |-> BatchEntry("UI Boundary (Edge Cases)", 0, Pct0)]

\* a breakdown whose percentages are taken over the 60 records requested from
\* batches 1 and 2
BreakdownBatch12_OverRequested(batch1_actual, batch2_actual) ==
    [batch1_happy_path |-> BatchEntry("UI Happy Path (MainFlow)", batch1_actual,
                                      Percentage(batch1_actual, 60)),
     batch2_validation |-> BatchEntry("UI Validation", batch2_actual,
                                      Percentage(batch2_actual, 60)),
     batch3_edge_cases |-> BatchEntry("UI Boundary (Edge Cases)", 0, Pct0)]

\* lines 529-534 and 541-546: the breakdown when batch 3 failed
BreakdownBatch12(batch1_actual, batch2_actual) ==
    LET total == batch1_actual + batch2_actual
    IN [batch1_happy_path |-> BatchEntry("UI Happy Path (MainFlow)", batch1_actual,
                                         Percentage(batch1_actual, total)),
        batch2_validation |-> BatchEntry("UI Validation", batch2_actual,
                                         Percentage(batch2_actual, total)),
        batch3_edge_cases |-> BatchEntry("UI Boundary (Edge Cases)", 0, Pct0)]

\* a final breakdown that leaves batch 3 out
BreakdownFinal_WithoutBatch3(batch1_actual, batch2_actual, batch3_actual) ==
    LET total == batch1_actual + batch2_actual
    IN [batch1_happy_path |-> BatchEntry("UI Happy Path (MainFlow)", batch1_actual,
                                         Percentage(batch1_actual, total)),
        batch2_validation |-> BatchEntry("UI Validation", batch2_actual,
                                         Percentage(batch2_actual, total)),
        batch3_edge_cases |-> BatchEntry("UI Boundary (Edge Cases)", 0, Pct0)]

\* lines 554-571: the breakdown when all three batches succeeded
BreakdownFinal(batch1_actual, batch2_actual, batch3_actual) ==
    LET total_generated == batch1_actual + batch2_actual + batch3_actual
    IN [batch1_happy_path |-> BatchEntry("UI Happy Path (MainFlow)", batch1_actual,
                                         Percentage(batch1_actual, total_generated)),
        batch2_validation |-> BatchEntry("UI Validation", batch2_actual,
                                         Percentage(batch2_actual, total_generated)),
        batch3_edge_cases |-> BatchEntry("UI Boundary (Edge Cases)", batch3_actual,
                                         Percentage(batch3_actual, total_generated))]

\* lines 592-600: the breakdown of single-batch mode
BreakdownSingle(n) ==
    [batch1_happy_path |-> BatchEntry("All Test Cases (Single Batch)", n, Pct100),
     batch2_validation |-> BatchEntry("N/A", 0, Pct0),
     batch3_edge_cases |-> BatchEntry("N/A", 0, Pct0)]

\* a threshold that leaves target_count = 70 to single-batch mode
UseBatches_Above70(target_count, batch_mode) == batch_mode /\ target_count > 70

\* line 450: the 3-batch protocol is used
UseBatches(target_count, batch_mode) == batch_mode /\ target_count >= 70

\* a partition into three batches of 30 whatever target_count is
Request_Fixed30(b, target_count) ==
    CASE b = 1 -> [batch |-> 1, template |-> "ui_happy_path", count |-> 30,
                   max_tokens |-> 12000]
      [] b = 2 -> [batch |-> 2, template |-> "ui_validation", count |-> 30,
                   max_tokens |-> 12000]
      [] b = 3 -> [batch |-> 3, template |-> "ui_edge_cases", count |-> 30,
                   max_tokens |-> 12000]
      [] OTHER -> [batch |-> 0, template |-> "ui_happy_path", count |-> target_count,
                   max_tokens |-> 12000]

\* the request generate_test_cases sends for a batch: the prompt template, the
\* count the prompt asks for, and max_tokens (lines 452-454, 469-470, 488-489,
\* 522-523, 579-580)
Request(b, target_count) ==
    CASE b = 1 -> [batch |-> 1, template |-> "ui_happy_path", count |-> 30,
                   max_tokens |-> 12000]
      [] b = 2 -> [batch |-> 2, template |-> "ui_validation", count |-> 30,
                   max_tokens |-> 12000]
      [] b = 3 -> [batch |-> 3, template |-> "ui_edge_cases",
                   count |-> target_count - 60, max_tokens |-> 12000]
      [] OTHER -> [batch |-> 0, template |-> "ui_happy_path", count |-> target_count,
                   max_tokens |-> 12000]

\* an all-or-nothing protocol: a failure of batch 2 or 3 fails the whole run
FailureReturn_AllOrNothing(b, stage, error, all, actual) ==
    [success |-> FALSE, test_cases |-> <<>>, error |-> error, breakdown |-> NoneDict]

\* a protocol that degrades gracefully on a batch 1 failure too
FailureReturn_DegradeBatch1(b, stage, error, all, actual) ==
    [success |-> TRUE, test_cases |-> all,
     error |-> "Batch 1 failed",
     breakdown |-> BreakdownBatch12(actual[1], actual[2])]

\* what generate_test_cases returns when the call (stage "call") or the parse
\* (stage "parse") of batch b fails: lines 472-477 and 582-587 for batch 1 and
\* single-batch mode, 492-511 for batch 2, 526-547 for batch 3
FailureReturn(b, stage, error, all, actual) ==
    CASE b = 2 ->
            [success |-> TRUE, test_cases |-> all,
             error |-> IF stage = "call" THEN "Batch 2 failed but Batch 1 succeeded"
                       ELSE "Batch 2 parsing failed but Batch 1 succeeded",
             breakdown |-> BreakdownBatch1Only(actual[1])]
      [] b = 3 ->
            [success |-> TRUE, test_cases |-> all,
             error |-> IF stage = "call" THEN "Batch 3 failed but Batch 1+2 succeeded"
                       ELSE "Batch 3 parsing failed but Batch 1+2 succeeded",
             breakdown |-> BreakdownBatch12(actual[1], actual[2])]
      [] OTHER ->
            [success |-> FALSE, test_cases |-> <<>>, error |-> error,
             breakdown |-> NoneDict]

\* a list.extend that puts the new records in front
Extend_Prepend(all, cases) == cases \o all

\* all_test_cases.extend(cases)
Extend(all, cases) == all \o cases

\* a return that drops the breakdown of a single-batch run
SuccessReturn_BreakdownOfBatchesOnly(b, all, actual) ==
    [success |-> TRUE, test_cases |-> all, error |-> None,
     breakdown |-> IF b = 0 THEN NoneDict
                   ELSE BreakdownFinal(actual[1], actual[2], actual[3])]

\* line 612: the return after every issued batch succeeded
SuccessReturn(b, all, actual) ==
    [success |-> TRUE, test_cases |-> all, error |-> None,
     breakdown |-> IF b = 0 THEN BreakdownSingle(Len(all))
                   ELSE BreakdownFinal(actual[1], actual[2], actual[3])]

NoReturn == [success |-> FALSE, test_cases |-> <<>>, error |-> "not returned",
             breakdown |-> NoneDict]

GenInit ==
    /\ gpc = "idle"
    /\ batch = 0
    /\ gArgs = [target_count |-> 0, batch_mode |-> FALSE]
    /\ requests = <<>>
    /\ response = NoText
    /\ parsed = <<>>
    /\ all_test_cases = <<>>
    /\ batch_actual = <<0, 0, 0>>
    /\ failedAt = 0
    /\ gRet = NoReturn

\* generate_test_cases, lines 447-462: choose the protocol
GenStart(target_count, batch_mode) ==
    /\ gpc = "idle"
    /\ UNCHANGED notGen
    /\ gArgs' = [target_count |-> target_count, batch_mode |-> batch_mode]
    /\ batch' = IF UseBatches(target_count, batch_mode) THEN 1 ELSE 0
    /\ gpc' = "call"
    /\ UNCHANGED <<requests, response, parsed, all_test_cases, batch_actual,
                   failedAt, gRet>>

\* the request of the batch in progress goes to the model service and its
\* outcome is examined (lines 469-473, 488-500, 522-535, 579-583)
CallBatch(o) ==
    /\ gpc = "call"
    /\ UNCHANGED notGen
    /\ requests' = Append(requests, Request(batch, gArgs.target_count))
    /\ LET r == _call_chatgpt(o)
       IN IF r.success
          THEN /\ response' = r.response
               /\ gpc' = "parse"
               /\ UNCHANGED <<failedAt, gRet>>
          ELSE /\ gRet' = FailureReturn(batch, "call", r.error, all_test_cases,
                                        batch_actual)
               /\ failedAt' = IF batch = 0 THEN 1 ELSE batch
               /\ gpc' = "done"
               /\ UNCHANGED response
    /\ UNCHANGED <<batch, gArgs, parsed, all_test_cases, batch_actual>>

\* the reply of the batch in progress is parsed and its records are collected
\* (lines 475-481, 502-515, 537-551, 585-589), then the next batch starts or
\* the run returns (line 612)
ParseBatch ==
    /\ gpc = "parse"
    /\ UNCHANGED notGen
    /\ LET r == _parse_test_cases(response)
       IN IF ~r.success
          THEN /\ gRet' = FailureReturn(batch, "parse", r.error, all_test_cases,
                                        batch_actual)
               /\ failedAt' = IF batch = 0 THEN 1 ELSE batch
               /\ gpc' = "done"
               /\ UNCHANGED <<batch, parsed, all_test_cases, batch_actual>>
          ELSE LET all == IF batch = 0 THEN r.cases
                          ELSE Extend(all_test_cases, r.cases)
                   actual == IF batch = 0 THEN batch_actual
                             ELSE [batch_actual EXCEPT ![batch] = Len(r.cases)]
               IN /\ all_test_cases' = all
                  /\ batch_actual' = actual
                  /\ parsed' = Append(parsed, r.cases)
                  /\ IF batch \in {1, 2}
                     THEN /\ batch' = batch + 1
                          /\ gpc' = "call"
                          /\ UNCHANGED gRet
                     ELSE /\ gRet' = SuccessReturn(batch, all, actual)
                          /\ gpc' = "done"
                          /\ UNCHANGED batch
                  /\ UNCHANGED failedAt
    /\ UNCHANGED <<gArgs, requests, response>>

\* =========================================================================
\*  PlaywrightRunner.login, selector by selector (playwright_runner.py)
\* =========================================================================

\* locations self.page.url can show
Urls == {"https://app/login", "https://app/Login?next=home", "https://app/home"}

\* str.lower on those locations
LowerUrl(u) ==
    IF u = "https://app/Login?next=home" THEN "https://app/login?next=home" ELSE u

\* `'login' in s` on those locations and their lower-cased forms
ContainsLogin(s) == s \in {"https://app/login", "https://app/login?next=home"}

\* a login-page test that forgets to lower-case the location
IsLoginPage_CaseSensitive(current_url) == ContainsLogin(current_url)

\* lines 133 and 210: 'login' in current_url.lower()
IsLoginPage(current_url) == ContainsLogin(LowerUrl(current_url))

\* lines 140-145
username_selectors ==
    <<"input[name='username']", "#usernameHook", "input[id*='username' i]",
      "input[type='text']">>

\* lines 162-166
password_selectors ==
    <<"input[name='password']", "input[type='password']", "#password">>

\* lines 183-187 (the first label is Vietnamese and carries its diacritics in
\* the source)
login_button_selectors ==
    <<"button:has-text('Dang nhap')", "button[type='submit']", "input[type='submit']">>

\* the list each chain walks
Selectors(c) ==
    CASE c = 1 -> username_selectors
      [] c = 2 -> password_selectors
      [] c = 3 -> login_button_selectors

\* the flag each chain sets
Flag(c) ==
    CASE c = 1 -> "username_filled"
      [] c = 2 -> "password_filled"
      [] c = 3 -> "login_clicked"

\* lines 147, 168, 189
NoFlags ==
    [username_filled |-> FALSE, password_filled |-> FALSE, login_clicked |-> FALSE]

\* what one pass of a chain's loop body can do: wait_for_selector raises, or it
\* returns and fill / click raises, or both return
SelectorOutcomes == {"not_found", "act_raises", "ok"}

\* one pass of a loop body, as recorded in tried
Attempt(c, i, o) ==
    [chain |-> c, index |-> i, selector |-> Selectors(c)[i],
     found |-> o # "not_found", acted |-> o = "ok"]

\* a loop that has no `break`: it goes on through its list after a success
AfterAttempt_NoBreak(c, i, o) ==
    IF i < Len(Selectors(c))
    THEN [lpc |-> "chain", sel |-> i + 1]
    ELSE [lpc |-> "check", sel |-> i + 1]

\* lines 148-156, 169-177, 190-198: `break` after a success, `continue` after
\* an exception, and the loop ends when the list does
AfterAttempt(c, i, o) ==
    IF o = "ok"
    THEN [lpc |-> "check", sel |-> i]
    ELSE IF i < Len(Selectors(c))
         THEN [lpc |-> "chain", sel |-> i + 1]
         ELSE [lpc |-> "check", sel |-> i + 1]

\* lines 158-159, 179-180, 200-201: the return path taken when a chain's flag
\* is still unset after its loop
ExhaustedPath(c) ==
    CASE c = 1 -> "no_username"
      [] c = 2 -> "no_password"
      [] c = 3 -> "no_button"

NoLoginReturn == [success |-> FALSE, error |-> "not returned"]

LoginInit ==
    /\ lpc = "idle"
    /\ chain = 0
    /\ sel = 0
    /\ filled = NoFlags
    /\ tried = <<>>
    /\ observed = <<>>
    /\ lshots = <<>>
    /\ lret = NoLoginReturn

\* lines 124-137: goto, the pause, and the first look at the location
Navigate(nav, current_url, e) ==
    /\ lpc = "idle"
    /\ UNCHANGED notLogin
    /\ IF nav = "raise"
       THEN /\ lpc' = "done"
            /\ lret' = login("error", e)
            /\ UNCHANGED <<chain, sel, observed>>
       ELSE /\ observed' = Append(observed, current_url)
            /\ IF ~IsLoginPage(current_url)
               THEN /\ lpc' = "done"
                    /\ lret' = login("already", e)
                    /\ UNCHANGED <<chain, sel>>
               ELSE /\ lpc' = "chain"
                    /\ chain' = 1
                    /\ sel' = 1
                    /\ UNCHANGED lret
    /\ UNCHANGED <<filled, tried, lshots>>

\* one pass of the loop body of the chain in progress
TrySelector(o) ==
    /\ lpc = "chain"
    /\ UNCHANGED notLogin
    /\ tried' = Append(tried, Attempt(chain, sel, o))
    /\ filled' = IF o = "ok" THEN [filled EXCEPT ![Flag(chain)] = TRUE] ELSE filled
    /\ LET n == AfterAttempt(chain, sel, o)
       IN /\ lpc' = n.lpc
          /\ sel' = n.sel
    /\ UNCHANGED <<chain, observed, lshots, lret>>

\* the test of the chain's flag that follows its loop
CheckFlag ==
    /\ lpc = "check"
    /\ UNCHANGED notLogin
    /\ IF ~filled[Flag(chain)]
       THEN /\ lpc' = "done"
            /\ lret' = login(ExhaustedPath(chain), None)
            /\ UNCHANGED <<chain, sel>>
       ELSE /\ IF chain < 3
               THEN /\ lpc' = "chain"
                    /\ chain' = chain + 1
                    /\ sel' = 1
               ELSE /\ lpc' = "wait"
                    /\ UNCHANGED <<chain, sel>>
            /\ UNCHANGED lret
    /\ UNCHANGED <<filled, tried, observed, lshots>>

\* lines 203-221: the wait for the page to settle and the second look at the
\* location
WaitForNavigation(w, current_url, e, shotOk) ==
    /\ lpc = "wait"
    /\ UNCHANGED notLogin
    /\ lpc' = "done"
    /\ IF w = "raise"
       THEN /\ lret' = login("wait_timeout", e)
            /\ UNCHANGED <<observed, lshots>>
       ELSE /\ observed' = Append(observed, current_url)
            /\ IF IsLoginPage(current_url)
               THEN /\ lshots' = lshots \o LoginShots("still_on_login", TRUE, shotOk)
                    /\ lret' = login("still_on_login", e)
               ELSE /\ lret' = login("ok", e)
                    /\ UNCHANGED lshots
    /\ UNCHANGED <<chain, sel, filled, tried>>

LoginNext ==
    \/ \E nav \in {"raise", "ok"}, u \in Urls, e \in ExcTexts : Navigate(nav, u, e)
    \/ \E o \in SelectorOutcomes : TrySelector(o)
    \/ CheckFlag
    \/ \E w \in {"raise", "ok"}, u \in Urls, e \in ExcTexts, s \in BOOLEAN :
          WaitForNavigation(w, u, e, s)

\* =========================================================================
\*  Result Reporter (result_reporter.py)
\* =========================================================================

\* report_result calls made on one worksheet
MaxReports == 2

\* the data rows of the worksheet
Rows == {4, 5}

\* a dict key that is not there
Absent == "<absent>"

\* str.strip on the cells of a worksheet
StripCell(v) ==
    CASE v = " " -> ""
      [] v = "  " -> ""
      [] v = " TC003 " -> "TC003"
      [] v = " d " -> "d"
      [] OTHER -> v

\* line 30, line 34: not h or h.strip() == ''
Blank(h) == h = "" \/ StripCell(h) = ""

\* the index of the last non-empty cell of a row, 0 when there is none
LastFilled(row) ==
    LET S == {i \in 1..Len(row) : row[i] # ""}
    IN IF S = {} THEN 0 ELSE CHOOSE i \in S : \A j \in S : j <= i

\* worksheet.row_values: the row without its trailing empty cells
row_values(row) == SubSeq(row, 1, LastFilled(row))

\* the header rows a worksheet can come with: the five test-case headers, then
\* the result columns present, blank or used for something else
HeaderRows ==
    {<<"Test ID", "Description", "Steps", "Expected Result", "Priority"
       >> \o h : h \in {<<"", "", "">>, <<"Result", "", "">>,
                         <<"Result", " ", "Link">>, <<"", "Notes", "">>}}

\* how the remote calls of one _ensure_result_columns run can go
EnsureOutcomes == {"read_raises", "write1_raises", "write2_raises", "ok"}

\* one update_cell call and whether it returned
Write(row, col, value, ok) == [row |-> row, col |-> col, value |-> value, ok |-> ok]

\* an ensure step that also heads the result column
updates_needed_WithResult(headers) ==
    LET current_cols == Len(headers)
    IN (IF current_cols < 6 \/ (current_cols >= 6 /\ Blank(headers[6]))
        THEN <<[row |-> 3, col |-> 6, value |-> "Result"]>> ELSE <<>>)
       \o
       (IF current_cols < 7 \/ (current_cols >= 7 /\ Blank(headers[7]))
        THEN <<[row |-> 3, col |-> 7, value |-> "Error Message"]>> ELSE <<>>)
       \o
       (IF current_cols < 8 \/ (current_cols >= 8 /\ Blank(headers[8]))
        THEN <<[row |-> 3, col |-> 8, value |-> "Screenshot"]>> ELSE <<>>)

\* lines 30-36
updates_needed(headers) ==
    LET current_cols == Len(headers)
    IN (IF current_cols < 7 \/ (current_cols >= 7 /\ Blank(headers[7]))
        THEN <<[row |-> 3, col |-> 7, value |-> "Error Message"]>> ELSE <<>>)
       \o
       (IF current_cols < 8 \/ (current_cols >= 8 /\ Blank(headers[8]))
        THEN <<[row |-> 3, col |-> 8, value |-> "Screenshot"]>> ELSE <<>>)

\* the updates that went through before the update_cell call that raised (with
\* fewer updates than the call that would raise, none raises)
Applied(updates, o) ==
    CASE o = "write1_raises" /\ Len(updates) >= 1 -> <<>>
      [] o = "write2_raises" /\ Len(updates) >= 2 -> <<updates[1]>>
      [] OTHER -> updates

RECURSIVE ApplyUpdates(_, _)
ApplyUpdates(row, updates) ==
    IF updates = <<>> THEN row
    ELSE ApplyUpdates([row EXCEPT ![Head(updates).col] = Head(updates).value],
                      Tail(updates))

\* an ensure step that writes its two headers whatever the row already holds
_ensure_result_columns_Always(row, o) ==
    LET updates == <<[row |-> 3, col |-> 7, value |-> "Error Message"],
                     [row |-> 3, col |-> 8, value |-> "Screenshot"]>>
    IN [header_row |-> ApplyUpdates(row, updates), updates |-> updates,
        attempted |-> 2, ret |-> TRUE, read |-> TRUE]

\* _ensure_result_columns, lines 23-50: the row read, the updates decided, the
\* update_cell calls made until one raises, and the boolean returned
_ensure_result_columns(row, o) ==
    IF o = "read_raises"
    THEN [header_row |-> row, updates |-> <<>>, attempted |-> 0, ret |-> FALSE,
          read |-> FALSE]
    ELSE LET needed == updates_needed(row_values(row))
             done == Applied(needed, o)
         IN [header_row |-> ApplyUpdates(row, done),
             updates |-> done,
             attempted |-> IF Len(done) < Len(needed) THEN Len(done) + 1 ELSE Len(done),
             ret |-> Len(done) = Len(needed),
             read |-> TRUE]

\* the test case dicts handed to report_result: two with a row, one without the
\* row_number key, one without the test_id key
TC001 == [has |-> {"test_id", "row_number"}, test_id |-> "TC001", row_number |-> 4]
TC002 == [has |-> {"test_id", "row_number"}, test_id |-> "TC002", row_number |-> 5]
TC003 == [has |-> {"test_id"}, test_id |-> "TC003", row_number |-> 0]
TCNoId == [has |-> {"row_number"}, test_id |-> Absent, row_number |-> 4]

\* an error message of 1001 characters, and its first 1000 characters, which
\* is also an error message of its own
LongMessage == "x*1001"
LongMessageHead == "x*1000"

\* result_reporter.py line 153
MaxErrorLen == 1000

\* len() of the error messages
MessageLen(m) ==
    CASE m = LongMessage -> 1001
      [] m = LongMessageHead -> 1000
      [] m = "Test timeout after 30 seconds" -> 29
      [] OTHER -> 0

\* error_msg[:1000]
First1000(m) == IF m = LongMessage THEN LongMessageHead ELSE m

\* a screenshot file named by an absolute path
AbsoluteShot == "/srv/executor/" \o ScreenshotPath("TC002", "test_failed")

\* the result dicts handed to report_result: a PASS as run_single_test builds
\* it, two FAILs with a screenshot, a FAIL with a message of 1000 characters and
\* no screenshot, and a dict with no key at all
ResultPass ==
    [has |-> {"status", "error_message", "screenshot_path"}, status |-> "PASS",
     error_message |-> None, screenshot_path |-> None]
ResultFail ==
    [has |-> {"status", "error_message", "screenshot_path"}, status |-> "FAIL",
     error_message |-> "Test timeout after 30 seconds",
     screenshot_path |-> ScreenshotPath("TC001", "test_failed")]
ResultFailLong ==
    [has |-> {"status", "error_message", "screenshot_path"}, status |-> "FAIL",
     error_message |-> LongMessage, screenshot_path |-> AbsoluteShot]
ResultFailExact ==
    [has |-> {"status", "error_message", "screenshot_path"}, status |-> "FAIL",
     error_message |-> LongMessageHead, screenshot_path |-> None]
ResultEmpty ==
    [has |-> {}, status |-> Absent, error_message |-> Absent,
     screenshot_path |-> Absent]

\* the (test_case, result) pairs report_result is called with
ReportCalls ==
    {<<TC001, ResultPass>>, <<TC001, ResultFail>>, <<TC001, ResultFailExact>>,
     <<TC001, ResultEmpty>>, <<TC002, ResultFailLong>>, <<TC003, ResultFail>>,
     <<TCNoId, ResultPass>>}

\* dict.get(key, default)
Get(d, key, default) == IF key \in d.has THEN d[key] ELSE default

\* the truth value of an optional string
Truthy(v) == v \notin {None, "", Absent}

\* a row test that lets every test case through
NoRowNumber_Never(test_case) == FALSE

\* lines 137-138: not test_case.get('row_number')
NoRowNumber(test_case) ==
    "row_number" \notin test_case.has \/ test_case.row_number = 0

\* an error cell that cuts every message of 1000 characters or more
ErrorCell_From1000(res) ==
    LET error_msg == Get(res, "error_message", "")
    IN IF Truthy(error_msg)
       THEN IF MessageLen(error_msg) >= MaxErrorLen
            THEN First1000(error_msg) \o "... (truncated)"
            ELSE error_msg
       ELSE ""

\* lines 150-158: the text written to the error cell
ErrorCell(res) ==
    LET error_msg == Get(res, "error_message", "")
    IN IF Truthy(error_msg)
       THEN IF MessageLen(error_msg) > MaxErrorLen
            THEN First1000(error_msg) \o "... (truncated)"
            ELSE error_msg
       ELSE ""

\* what the file system says about the screenshot file: it is not there, it is
\* there, or it is there for os.path.exists and gone for os.path.getsize
FileStates == {"missing", "ok", "stat_raises"}

\* os.path.basename
Basename(image_path) ==
    IF image_path = AbsoluteShot THEN "TC002_test_failed_" \o Timestamp \o ".png"
    ELSE "TC001_test_failed_" \o Timestamp \o ".png"

\* os.path.relpath, the process running in /srv/executor
RelPath(image_path) ==
    IF image_path = AbsoluteShot THEN ScreenshotPath("TC002", "test_failed")
    ELSE image_path

\* line 80, for a file of 12 KB
ScreenshotText(image_path) == RelPath(image_path) \o " (12 KB)"

\* line 97 (the source marks the file name with a camera sign)
FallbackText(image_path) == "[camera] " \o Basename(image_path)

\* worksheet.update_cell on a data row
UpdateCell(c, row, col, value, ok) ==
    IF ok THEN [c EXCEPT ![row][col] = value] ELSE c

\* _add_screenshot_info, lines 52-100: the cell text is built and written; when
\* anything of that raises, the fallback text is written; when that raises as
\* well, False
_add_screenshot_info(c, row_num, col_num, image_path, fs, ok1, ok2) ==
    IF fs = "ok" /\ ok1
    THEN [cells |-> UpdateCell(c, row_num, col_num, ScreenshotText(image_path), TRUE),
          writes |-> <<Write(row_num, col_num, ScreenshotText(image_path), TRUE)>>,
          ret |-> TRUE]
    ELSE LET first == IF fs = "ok"
                      THEN <<Write(row_num, col_num, ScreenshotText(image_path), FALSE)>>
                      ELSE <<>>
         IN [cells |-> UpdateCell(c, row_num, col_num, FallbackText(image_path), ok2),
             writes |-> first \o <<Write(row_num, col_num, FallbackText(image_path), ok2)>>,
             ret |-> ok2]

\* line 164: the value of _add_screenshot_info is dropped, and line 173 returns
\* True
ScreenshotStepReturn(info_ret) == TRUE

EmptyCells == [r \in Rows |-> [c \in 6..8 |-> ""]]

NoCall == [test_case |-> [has |-> {}, test_id |-> Absent, row_number |-> 0],
           result |-> [has |-> {}, status |-> Absent, error_message |-> Absent,
                       screenshot_path |-> Absent],
           before |-> EmptyCells]

\* no report_result call has finished yet
NoReport == [n |-> 0, test_case |-> NoCall.test_case, result |-> NoCall.result,
             ret |-> FALSE, writes |-> <<>>, fs |-> "none", before |-> EmptyCells]

\* no _ensure_result_columns run has finished yet
NoEnsure == [n |-> 0, prev_ret |-> FALSE, before |-> <<>>, after |-> <<>>,
             updates |-> <<>>, attempted |-> 0, ret |-> FALSE, read |-> FALSE]

ReporterInit ==
    /\ rpc = "new"
    /\ header_row = <<"Test ID", "Description", "Steps", "Expected Result", "Priority",
                      "", "", "">>
    /\ cells = EmptyCells
    /\ rcall = NoCall
    /\ writes = <<>>
    /\ nreports = 0
    /\ reported = NoReport
    /\ ensured = NoEnsure

\* one finished report_result call: its number, its arguments, its return
\* value, its data-row update_cell calls, the file state it met and the cells
\* it started from
Report(n, call, ret, w, fs) ==
    [n |-> n, test_case |-> call.test_case, result |-> call.result, ret |-> ret,
     writes |-> w, fs |-> fs, before |-> call.before]

\* the worksheet the reporter is pointed at
GivenWorksheet(h) ==
    /\ rpc = "new"
    /\ UNCHANGED notReporter
    /\ header_row' = h
    /\ rpc' = "idle"
    /\ UNCHANGED <<cells, rcall, writes, nreports, reported, ensured>>

\* report_result, lines 119-122: test_case['test_id'] raises on a dict without
\* that key, and the handler of lines 175-179 returns False
ReportBegin(test_case, res) ==
    /\ rpc = "idle"
    /\ nreports < MaxReports
    /\ UNCHANGED notReporter
    /\ nreports' = nreports + 1
    /\ LET call == [test_case |-> test_case, result |-> res, before |-> cells]
       IN IF "test_id" \notin test_case.has
          THEN /\ reported' = Report(nreports + 1, call, FALSE, <<>>, "none")
               /\ UNCHANGED <<rpc, rcall>>
          ELSE /\ rpc' = "sheet"
               /\ rcall' = call
               /\ UNCHANGED reported
    /\ UNCHANGED <<header_row, cells, writes, ensured>>

\* lines 124-130: the spreadsheet is opened (it reports failure, or raises, or
\* returns) and the worksheet looked up by name (it raises when there is none)
GetWorksheet(o) ==
    /\ rpc = "sheet"
    /\ UNCHANGED notReporter
    /\ IF o = "ok"
       THEN /\ rpc' = "ensure"
            /\ UNCHANGED <<rcall, reported>>
       ELSE /\ rpc' = "idle"
            /\ rcall' = NoCall
            /\ reported' = Report(nreports, rcall, FALSE, <<>>, "none")
    /\ UNCHANGED <<header_row, cells, writes, nreports, ensured>>

\* lines 132-140: the result columns are ensured, the value of that step is
\* dropped, and the row number is tested
EnsureColumns(o) ==
    /\ rpc = "ensure"
    /\ UNCHANGED notReporter
    /\ LET r == _ensure_result_columns(header_row, o)
       IN /\ header_row' = r.header_row
          /\ ensured' = [n |-> ensured.n + 1, prev_ret |-> ensured.ret,
                          before |-> header_row, after |-> r.header_row,
                          updates |-> r.updates, attempted |-> r.attempted,
                          ret |-> r.ret, read |-> r.read]
    /\ IF NoRowNumber(rcall.test_case)
       THEN /\ rpc' = "idle"
            /\ rcall' = NoCall
            /\ reported' = Report(nreports, rcall, FALSE, <<>>, "none")
       ELSE /\ rpc' = "status"
            /\ UNCHANGED <<rcall, reported>>
    /\ UNCHANGED <<cells, writes, nreports>>

\* lines 144-147
WriteStatus(ok) ==
    /\ rpc = "status"
    /\ UNCHANGED notReporter
    /\ LET row_num == rcall.test_case.row_number
           status == Get(rcall.result, "status", "UNKNOWN")
           w == <<Write(row_num, 6, status, ok)>>
           c == UpdateCell(cells, row_num, 6, status, ok)
       IN /\ cells' = c
          /\ IF ok
             THEN /\ rpc' = "error"
                  /\ writes' = w
                  /\ UNCHANGED <<rcall, reported>>
             ELSE /\ rpc' = "idle"
                  /\ rcall' = NoCall
                  /\ writes' = <<>>
                  /\ reported' = Report(nreports, rcall, FALSE, w, "none")
    /\ UNCHANGED <<header_row, nreports, ensured>>

\* lines 149-159
WriteError(ok) ==
    /\ rpc = "error"
    /\ UNCHANGED notReporter
    /\ LET row_num == rcall.test_case.row_number
           w == writes \o <<Write(row_num, 7, ErrorCell(rcall.result), ok)>>
           c == UpdateCell(cells, row_num, 7, ErrorCell(rcall.result), ok)
       IN /\ cells' = c
          /\ IF ok
             THEN /\ rpc' = "shot"
                  /\ writes' = w
                  /\ UNCHANGED <<rcall, reported>>
             ELSE /\ rpc' = "idle"
                  /\ rcall' = NoCall
                  /\ writes' = <<>>
                  /\ reported' = Report(nreports, rcall, FALSE, w, "none")
    /\ UNCHANGED <<header_row, nreports, ensured>>

\* lines 161-173
WriteScreenshot(fs, ok1, ok2) ==
    /\ rpc = "shot"
    /\ UNCHANGED notReporter
    /\ LET row_num == rcall.test_case.row_number
           screenshot_path == Get(rcall.result, "screenshot_path", None)
       IN IF Truthy(screenshot_path) /\ fs # "missing"
          THEN LET r == _add_screenshot_info(cells, row_num, 8, screenshot_path,
                                             fs, ok1, ok2)
               IN /\ cells' = r.cells
                  /\ reported' = Report(nreports, rcall, ScreenshotStepReturn(r.ret),
                                         writes \o r.writes, fs)
          ELSE /\ cells' = UpdateCell(cells, row_num, 8, "", ok1)
               /\ reported' = Report(nreports, rcall, ok1,
                                      writes \o <<Write(row_num, 8, "", ok1)>>, fs)
    /\ rpc' = "idle"
    /\ rcall' = NoCall
    /\ writes' = <<>>
    /\ UNCHANGED <<header_row, nreports, ensured>>

ReporterNext ==
    \/ \E h \in HeaderRows : GivenWorksheet(h)
    \/ \E tr \in ReportCalls : ReportBegin(tr[1], tr[2])
    \/ \E o \in {"ok", "fail", "raise", "no_worksheet"} : GetWorksheet(o)
    \/ \E o \in EnsureOutcomes : EnsureColumns(o)
    \/ \E ok \in BOOLEAN : WriteStatus(ok)
    \/ \E ok \in BOOLEAN : WriteError(ok)
    \/ \E fs \in FileStates, ok1, ok2 \in BOOLEAN : WriteScreenshot(fs, ok1, ok2)

\* =========================================================================
\*  Sheet Reader (sheet_reader.py)
\* =========================================================================

\* data rows of one worksheet
MaxDataRows == 2

\* the values os.getenv('TEST_CASE_PREFIX', 'TC') can give: the default and a
\* prefix set in the environment
Prefixes == {"TC", "QA"}

\* rows 1 and 2 of a worksheet: the BRD file name and an empty row
TitleRow == <<"BRD_contract.docx">>
EmptyRow == <<>>

\* the header rows a worksheet can come with: the expected one, a shorter one
\* with another name, and a longer one in capitals
ReaderHeaderRows ==
    {<<"Test ID", "Description", "Steps", "Expected Result", "Priority">>,
     <<"ID">>,
     <<"TEST ID", "DESCRIPTION", "STEPS", "EXPECTED RESULT", "PRIORITY", "RESULT">>}

\* the data rows a worksheet can hold
DataRows ==
    {<<"TC001", "desc", "steps", "expected", "High">>,
     <<"TC002">>,
     <<" TC003 ", " d ", "s", "e", "">>,
     <<"", "orphan">>,
     <<>>,
     <<"  ">>,
     <<"QA001", "d", "s", "e", "Low">>}

\* the non-empty sequences over S of at most n elements
SeqFrom1To(S, n) == UNION {[1..k -> S] : k \in 1..n}

\* what get_all_values can return: a worksheet cut short after 0 to 3 rows, or
\* the three leading rows and some data rows
Worksheets ==
    {SubSeq(<<TitleRow, EmptyRow, h>>, 1, k) : k \in 0..3, h \in ReaderHeaderRows}
    \cup {<<TitleRow, EmptyRow, h>> \o d :
             h \in ReaderHeaderRows, d \in SeqFrom1To(DataRows, MaxDataRows)}

\* str.startswith on stripped first cells
StartsWith(v, prefix) ==
    \/ prefix = "TC" /\ v \in {"TC001", "TC002", "TC003"}
    \/ prefix = "QA" /\ v = "QA001"

\* line 95: not row or not row[0] or not row[0].strip()
EmptyRowTest(row) == row = <<>> \/ row[1] = "" \/ StripCell(row[1]) = ""

\* lines 99-103: row[k].strip() if len(row) > k else default (k counted from 0)
CellOr(row, k, default) == IF Len(row) > k THEN StripCell(row[k + 1]) ELSE default

\* a row number that keeps the 0-based index
RowNumber_ZeroBased(row_idx) == row_idx

\* line 116
RowNumber(row_idx) == row_idx + 1

\* lines 99-120
TestCaseOf(row, row_idx) ==
    [test_id |-> CellOr(row, 0, ""),
     description |-> CellOr(row, 1, ""),
     steps |-> CellOr(row, 2, ""),
     expected_result |-> CellOr(row, 3, ""),
     priority |-> CellOr(row, 4, "Medium"),
     row_number |-> RowNumber(row_idx),
     status |-> "",
     error_message |-> "",
     screenshot_url |-> ""]

\* lines 91-122: the loop over range(row_idx, len(all_values))
RECURSIVE ParseRows(_, _)
ParseRows(all_values, row_idx) ==
    IF row_idx >= Len(all_values) THEN <<>>
    ELSE LET row == all_values[row_idx + 1]
         IN IF EmptyRowTest(row) \/ ~StartsWith(CellOr(row, 0, ""), "TC")
            THEN ParseRows(all_values, row_idx + 1)
            ELSE <<TestCaseOf(row, row_idx)>> \o ParseRows(all_values, row_idx + 1)

\* line 83
expected_headers == <<"Test ID", "Description", "Steps", "Expected Result", "Priority">>

\* str.lower on header cells
LowerHeader(cell) ==
    CASE cell \in {"Test ID", "TEST ID"} -> "test id"
      [] cell \in {"Description", "DESCRIPTION"} -> "description"
      [] cell \in {"Steps", "STEPS"} -> "steps"
      [] cell \in {"Expected Result", "EXPECTED RESULT"} -> "expected result"
      [] cell \in {"Priority", "PRIORITY"} -> "priority"
      [] cell = "ID" -> "id"
      [] cell = "RESULT" -> "result"
      [] OTHER -> cell

\* line 85: i >= len(headers) or expected.lower() not in headers[i].lower()
\* (i counted from 1 here); of the lower-cased cells above none holds another
\* expected header as a substring
HeaderMismatch(headers, i) ==
    i > Len(headers) \/ LowerHeader(expected_headers[i]) # LowerHeader(headers[i])

\* a header check that gives up the read on the first mismatch
ValidateHeaders_Fatal(headers) ==
    [warnings |-> {i \in 1..Len(expected_headers) : HeaderMismatch(headers, i)},
     raised |-> \E i \in 1..Len(expected_headers) : HeaderMismatch(headers, i)]

\* lines 82-86: the columns a warning is printed for; the cells are str, so
\* no statement of the loop raises, and none returns
ValidateHeaders(headers) ==
    [warnings |-> {i \in 1..Len(expected_headers) : HeaderMismatch(headers, i)},
     raised |-> FALSE]

\* a row-count test that lets a worksheet of three rows through
InsufficientData_Three(all_values) == Len(all_values) < 3

\* line 72
InsufficientData(all_values) == Len(all_values) < 4

\* how the remote calls of one read_test_cases call can go: the connection
\* (made only when self.spreadsheet is not set), the worksheet lookup, and
\* get_all_values
ConnectOutcomes == {"ok", "fail", "raise"}
ReadOutcomes == {"no_worksheet", "values_raise", "ok"}

\* connect, lines 21-37 ("none": the call is not made)
connect(o, e) ==
    CASE o = "ok" -> [success |-> TRUE, error |-> None]
      [] o = "fail" -> [success |-> FALSE, error |-> e]
      [] o = "raise" -> [success |-> FALSE, error |-> e]
      [] o = "none" -> [success |-> FALSE, error |-> None]

\* read_test_cases, lines 39-151
read_test_cases(connected, co, ro, e, worksheet_name, all_values) ==
    IF ~connected /\ ~connect(co, e).success
    THEN [success |-> FALSE, test_cases |-> <<>>,
          error |-> "Failed to connect: " \o connect(co, e).error]
    ELSE IF ro = "no_worksheet"
    THEN [success |-> FALSE, test_cases |-> <<>>,
          error |-> "Worksheet not found: " \o worksheet_name]
    ELSE IF ro = "values_raise"
    THEN [success |-> FALSE, test_cases |-> <<>>,
          error |-> "Error reading test cases: " \o e]
    ELSE IF InsufficientData(all_values)
    THEN [success |-> FALSE, test_cases |-> <<>>,
          error |-> "Worksheet has insufficient data (need at least 4 rows)"]
    ELSE IF ValidateHeaders(all_values[3]).raised
    THEN [success |-> FALSE, test_cases |-> <<>>,
          error |-> "Error reading test cases: " \o e]
    ELSE [success |-> TRUE, test_cases |-> ParseRows(all_values, 3), error |-> None]

NoRead == [success |-> FALSE, test_cases |-> <<>>, error |-> "not returned"]
NoReadInput == [connected |-> FALSE, co |-> "none", ro |-> "none", all_values |-> <<>>]

ReaderInit ==
    /\ rdpc = "boot"
    /\ TEST_CASE_PREFIX = "TC"
    /\ spreadsheet = FALSE
    /\ read_in = NoReadInput
    /\ read_out = NoRead

\* config.py line 56: the class attribute is set from the environment when the
\* module is loaded
LoadConfig(p) ==
    /\ rdpc = "boot"
    /\ UNCHANGED notReader
    /\ rdpc' = "ready"
    /\ TEST_CASE_PREFIX' = p
    /\ UNCHANGED <<spreadsheet, read_in, read_out>>

\* a caller's own connect(), lines 21-37
Connect(o, e) ==
    /\ rdpc = "ready"
    /\ ~spreadsheet
    /\ UNCHANGED notReader
    /\ spreadsheet' = connect(o, e).success
    /\ UNCHANGED <<rdpc, TEST_CASE_PREFIX, read_in, read_out>>

\* one read_test_cases call, on a reader that a caller's connect() may or may
\* not have connected before; self.spreadsheet is all a call leaves behind
ReadTestCases(co, ro, e, all_values) ==
    /\ rdpc = "ready"
    /\ spreadsheet <=> co = "none"
    /\ UNCHANGED notReader
    /\ rdpc' = "done"
    /\ spreadsheet' = (spreadsheet \/ connect(co, e).success)
    /\ read_in' = [connected |-> spreadsheet, co |-> co, ro |-> ro,
                   all_values |-> all_values]
    /\ read_out' = read_test_cases(spreadsheet, co, ro, e, "Sheet1", all_values)
    /\ UNCHANGED TEST_CASE_PREFIX

ReaderNext ==
    \/ \E p \in Prefixes : LoadConfig(p)
    \/ \E o \in ConnectOutcomes, e \in ExcTexts : Connect(o, e)
    \/ \E co \in ConnectOutcomes \cup {"none"}, ro \in ReadOutcomes, w \in Worksheets :
          ReadTestCases(co, ro, "E1", w)

\* =========================================================================
\*  Module classifier (code_generator.py, _detect_module)
\* =========================================================================

\* description and steps texts of test cases (Vietnamese words are written
\* without their diacritics here and in the keyword lists)
Texts ==
    {"", "Open the Login page", "Create CONTRACT for CTV", "Misleading title",
     "Add Product", "Share Deeplink", "View Dashboard", "KPI Setting",
     "Edit profile", "Tao hop dong", "Bao cao thang"}

\* str.lower on those texts
LowerText(t) ==
    CASE t = "Open the Login page" -> "open the login page"
      [] t = "Create CONTRACT for CTV" -> "create contract for ctv"
      [] t = "Misleading title" -> "misleading title"
      [] t = "Add Product" -> "add product"
      [] t = "Share Deeplink" -> "share deeplink"
      [] t = "View Dashboard" -> "view dashboard"
      [] t = "KPI Setting" -> "kpi setting"
      [] t = "Edit profile" -> "edit profile"
      [] t = "Tao hop dong" -> "tao hop dong"
      [] t = "Bao cao thang" -> "bao cao thang"
      [] OTHER -> t

\* the keywords of lines 44-56 that are substrings of a text, for the texts
\* above and their lower-cased forms
KeywordsIn(t) ==
    CASE t = "create contract for ctv" -> {"ctv", "contract"}
      [] t \in {"Misleading title", "misleading title"} -> {"lead"}
      [] t = "add product" -> {"product"}
      [] t = "Share Deeplink" -> {"link"}
      [] t = "share deeplink" -> {"deeplink", "link"}
      [] t = "view dashboard" -> {"dashboard"}
      [] t = "kpi setting" -> {"setting", "kpi"}
      [] t \in {"Edit profile", "edit profile"} -> {"profile"}
      [] t \in {"Tao hop dong", "tao hop dong"} -> {"hop dong"}
      [] t = "bao cao thang" -> {"bao cao"}
      [] OTHER -> {}

\* word in text
In(word, text) == word \in KeywordsIn(text)

\* the keyword lists of lines 44-56, in the order of the elif chain
KeywordGroups ==
    <<[module |-> "contract", words |-> {"hop dong", "ctv", "contract"}],
      [module |-> "lead", words |-> {"lead", "khach hang tiem nang"}],
      [module |-> "product", words |-> {"san pham", "product"}],
      [module |-> "deeplink", words |-> {"deeplink", "link"}],
      [module |-> "report", words |-> {"bao cao", "report", "dashboard"}],
      [module |-> "settings", words |-> {"cai dat", "setting", "kpi"}],
      [module |-> "profile", words |-> {"profile", "ho so", "tai khoan"}]>>

\* a default that is a tag of its own
DefaultModule_General == "general"

\* line 59
DefaultModule == "contract"

\* the test case dicts handed to _detect_module: description and steps are
\* strings, as read_test_cases builds them, or are not there
ModuleInputs ==
    {[has |-> h, description |-> IF "description" \in h THEN d ELSE Absent,
      steps |-> IF "steps" \in h THEN st ELSE Absent] :
        h \in SUBSET {"description", "steps"}, d \in Texts, st \in Texts}

\* the elif chain walked from its last branch to its first
FirstMatch_LastWins(description, steps, g) ==
    LET hit == {h \in g..Len(KeywordGroups) :
                   \E word \in KeywordGroups[h].words :
                       In(word, description) \/ In(word, steps)}
    IN IF hit = {} THEN DefaultModule
       ELSE KeywordGroups[CHOOSE h \in hit : \A k \in hit : k <= h].module

\* lines 44-59: the first group one of whose words is in description or steps
RECURSIVE FirstMatch(_, _, _)
FirstMatch(description, steps, g) ==
    IF g > Len(KeywordGroups) THEN DefaultModule
    ELSE IF \E word \in KeywordGroups[g].words :
                In(word, description) \/ In(word, steps)
         THEN KeywordGroups[g].module
         ELSE FirstMatch(description, steps, g + 1)

\* _detect_module, lines 30-59
_detect_module(test_case) ==
    LET description == LowerText(Get(test_case, "description", ""))
        steps == LowerText(Get(test_case, "steps", ""))
    IN FirstMatch(description, steps, 1)

ClassifierInit ==
    /\ classified = FALSE
    /\ module_in = [has |-> {}, description |-> Absent, steps |-> Absent]
    /\ module_out = ""

\* one _detect_module call
DetectModule(test_case) ==
    /\ UNCHANGED notClassifier
    /\ classified' = TRUE
    /\ module_in' = test_case
    /\ module_out' = _detect_module(test_case)

ClassifierNext == \E tc \in ModuleInputs : DetectModule(tc)

\* =========================================================================
\*  Coverage estimate (chatgpt_service.py, estimate_required_test_cases)
\* =========================================================================

\* requirement texts, by the two things the estimate reads of them:
\* len(brd_content) and the number of UI keyword occurrences in
\* brd_content.lower() (lines 138-147)
BrdContents ==
    {[len |-> 0, ui |-> 0], [len |-> 4999, ui |-> 0], [len |-> 4999, ui |-> 7],
     [len |-> 5000, ui |-> 40], [len |-> 14999, ui |-> 100],
     [len |-> 15000, ui |-> 0], [len |-> 15000, ui |-> 6]}

\* generated_count values
GeneratedCounts == {0, 1, 45, 200}

\* reply texts of the estimate request
EstimateReplies ==
    {"120", "Between 80 and 120 test cases", "many", "-5", "0"}

\* what chat.completions.create can do: raise, answer without content, or
\* answer with a text
EstimateOutcomes ==
    [kind : {"raises", "no_content"}, text : {""}]
        \cup [kind : {"text"}, text : EstimateReplies]

\* re.findall(r'\d+', result) on those texts
FindAllDigits(text) ==
    CASE text = "120" -> <<"120">>
      [] text = "Between 80 and 120 test cases" -> <<"80", "120">>
      [] text = "-5" -> <<"5">>
      [] text = "0" -> <<"0">>
      [] OTHER -> <<>>

\* int() on the digit strings above
ParseInt(digits) ==
    CASE digits = "120" -> 120
      [] digits = "80" -> 80
      [] digits = "5" -> 5
      [] OTHER -> 0

Max(a, b) == IF a >= b THEN a ELSE b
Min(a, b) == IF a <= b THEN a ELSE b

\* lines 150-155
BaseEstimate(brd_length) ==
    IF brd_length < 5000 THEN 30
    ELSE IF brd_length < 15000 THEN 60
    ELSE 100

\* lines 158-160: int(base_estimate * (1 + min(ui_element_count / 20, 2.0) * 0.5)).
\* In binary floating point 100 * 1.15 is 114.99999999999999, which int()
\* truncates to 114; for every other base and count the value is the exact one.
UiEstimate(base_estimate, ui_element_count) ==
    IF base_estimate = 100 /\ ui_element_count = 6 THEN 114
    ELSE (base_estimate * (40 + Min(ui_element_count, 40))) \div 40

\* a floor taken at half of what was generated
MinEstimate_Half(generated_count) == generated_count \div 2

\* line 164: int(generated_count * 1.5)
MinEstimate(generated_count) == (3 * generated_count) \div 2

\* _estimate_by_heuristic, lines 126-170
_estimate_by_heuristic(brd_content, generated_count) ==
    LET brd_length == brd_content.len
        ui_element_count == brd_content.ui
        base_estimate == BaseEstimate(brd_length)
        estimate == UiEstimate(base_estimate, ui_element_count)
        min_estimate == MinEstimate(generated_count)
    IN Max(estimate, min_estimate)

\* lines 98-111, the body of the try: the exception it ends with, or the
\* numbers found in the reply
TryBody(o) ==
    CASE o.kind = "raises" -> [exc |-> "APIError", numbers |-> <<>>]
      [] o.kind = "no_content" -> [exc |-> "AttributeError", numbers |-> <<>>]
      [] OTHER -> [exc |-> None, numbers |-> FindAllDigits(o.text)]

\* line 122, `except Exception`: the exceptions the handler takes
Handles(exc) == TRUE

\* estimate_required_test_cases, lines 61-124: the value returned and the path
\* it came from, or the exception that left the method
estimate_required_test_cases(brd_content, generated_count, o) ==
    LET t == TryBody(o)
    IN IF t.exc # None
       THEN IF Handles(t.exc)
            THEN [raised |-> None, path |-> "heuristic",
                  value |-> _estimate_by_heuristic(brd_content, generated_count)]
            ELSE [raised |-> t.exc, path |-> "none", value |-> 0]
       ELSE IF t.numbers # <<>>
            THEN [raised |-> None, path |-> "model",
                  value |-> Max(ParseInt(t.numbers[1]), generated_count)]
            ELSE [raised |-> None, path |-> "heuristic",
                  value |-> _estimate_by_heuristic(brd_content, generated_count)]

EstimatorInit ==
    /\ estimated = FALSE
    /\ est_in = [brd_content |-> [len |-> 0, ui |-> 0], generated_count |-> 0,
                 outcome |-> [kind |-> "none", text |-> ""]]
    /\ est_out = [raised |-> None, path |-> "none", value |-> 0]

\* one estimate_required_test_cases call
EstimateRequired(brd_content, generated_count, o) ==
    /\ UNCHANGED notEstimator
    /\ estimated' = TRUE
    /\ est_in' = [brd_content |-> brd_content, generated_count |-> generated_count,
                  outcome |-> o]
    /\ est_out' = estimate_required_test_cases(brd_content, generated_count, o)

EstimatorNext ==
    \E b \in BrdContents, g \in GeneratedCounts, o \in EstimateOutcomes :
        EstimateRequired(b, g, o)

\* =========================================================================
\*  Singleton accessors (locator_manager.py, url_manager.py)
\* =========================================================================

\* accessor calls started in one behaviour
MaxGets == 3

\* the threads of the process that call the accessors (run_executor.py serves
\* requests with Flask's app.run)
Threads == {"t1", "t2"}

\* get_locator_manager and get_url_manager
Managers == {"locator", "url"}

SingletonInit ==
    /\ singleton = [m \in Managers |-> 0]
    /\ instances = [m \in Managers |-> 0]
    /\ assigns = [m \in Managers |-> 0]
    /\ loads = [m \in Managers |-> 0]
    /\ tpc = [t \in Threads |-> "idle"]
    /\ tmgr = [t \in Threads |-> "locator"]
    /\ tlocal = [t \in Threads |-> 0]
    /\ received = [m \in Managers |-> {}]
    /\ ngets = 0

\* a thread enters get_locator_manager or get_url_manager
GetManager(t, m) ==
    /\ tpc[t] = "idle"
    /\ ngets < MaxGets
    /\ UNCHANGED notSingleton
    /\ ngets' = ngets + 1
    /\ tmgr' = [tmgr EXCEPT ![t] = m]
    /\ tpc' = [tpc EXCEPT ![t] = "test"]
    /\ UNCHANGED <<singleton, instances, assigns, loads, tlocal, received>>

\* lines 104 and 147: `if _locator_manager is None`, one read of the global
TestNone(t) ==
    /\ tpc[t] = "test"
    /\ UNCHANGED notSingleton
    /\ tpc' = [tpc EXCEPT ![t] = IF singleton[tmgr[t]] = 0 THEN "construct"
                                  ELSE "return"]
    /\ UNCHANGED <<singleton, instances, assigns, loads, tmgr, tlocal, received, ngets>>

\* lines 105 and 148, right-hand side: LocatorManager() / URLManager(), whose
\* __init__ runs load_locators / load_urls once (a file read)
Construct(t) ==
    /\ tpc[t] = "construct"
    /\ UNCHANGED notSingleton
    /\ instances' = [instances EXCEPT ![tmgr[t]] = @ + 1]
    /\ loads' = [loads EXCEPT ![tmgr[t]] = @ + 1]
    /\ tlocal' = [tlocal EXCEPT ![t] = instances[tmgr[t]] + 1]
    /\ tpc' = [tpc EXCEPT ![t] = "assign"]
    /\ UNCHANGED <<singleton, assigns, tmgr, received, ngets>>

\* lines 105 and 148: the store to the module-level name
Assign(t) ==
    /\ tpc[t] = "assign"
    /\ UNCHANGED notSingleton
    /\ singleton' = [singleton EXCEPT ![tmgr[t]] = tlocal[t]]
    /\ assigns' = [assigns EXCEPT ![tmgr[t]] = @ + 1]
    /\ tlocal' = [tlocal EXCEPT ![t] = 0]
    /\ tpc' = [tpc EXCEPT ![t] = "return"]
    /\ UNCHANGED <<instances, loads, tmgr, received, ngets>>

\* lines 106 and 149: `return _locator_manager`, a second read of the global
ReturnManager(t) ==
    /\ tpc[t] = "return"
    /\ UNCHANGED notSingleton
    /\ received' = [received EXCEPT ![tmgr[t]] = @ \cup {singleton[tmgr[t]]}]
    /\ tpc' = [tpc EXCEPT ![t] = "idle"]
    /\ UNCHANGED <<singleton, instances, assigns, loads, tmgr, tlocal, ngets>>

SingletonNext ==
    \/ \E t \in Threads, m \in Managers : GetManager(t, m)
    \/ \E t \in Threads : TestNone(t)
    \/ \E t \in Threads : Construct(t)
    \/ \E t \in Threads : Assign(t)
    \/ \E t \in Threads : ReturnManager(t)

\* =========================================================================
\*  Configuration stores (locator_manager.py, url_manager.py)
\* =========================================================================

\* Python values the lookups work on and return: None, a str, a bool, a dict
\* of str to str (`d` is its set of items), and a raised exception (`s` is its
\* type)
PyNone == [t |-> "None", s |-> "", d |-> {}]
PyStr(x) == [t |-> "str", s |-> x, d |-> {}]
PyBool(b) == [t |-> "bool", s |-> IF b THEN "True" ELSE "False", d |-> {}]
PyDict(items) == [t |-> "dict", s |-> "", d |-> items]
Raised(exc) == [t |-> "raise", s |-> exc, d |-> {}]

\* what yaml.safe_load returns: a mapping (`keys` are its top-level keys,
\* `nulls` those whose value is null, `strs` the items whose value is a string,
\* `entries` the items (key, inner key, value) of the values that are
\* mappings), None for an empty document, or a list
YamlDict(keys, nulls, strs, entries) ==
    [t |-> "dict", keys |-> keys, nulls |-> nulls, strs |-> strs, entries |-> entries]
EmptyDict == YamlDict({}, {}, {}, {})
YamlNone == [t |-> "None", keys |-> {}, nulls |-> {}, strs |-> {}, entries |-> {}]
YamlList == [t |-> "list", keys |-> {}, nulls |-> {}, strs |-> {}, entries |-> {}]

\* documents of app/locators/locators.yaml: four categories, and the same
\* with a `product:` key that has no children
StdLocators ==
    YamlDict({"login", "contract", "common", "lead"}, {}, {},
             {<<"login", "email_input", "#email">>,
              <<"contract", "save_button", "#save">>,
              <<"common", "toast", ".toast">>,
              <<"lead", "name_input", "#lead-name">>})
LocatorsNullProduct ==
    YamlDict({"login", "contract", "common", "product"}, {"product"}, {},
             {<<"login", "email_input", "#email">>,
              <<"contract", "save_button", "#save">>,
              <<"common", "toast", ".toast">>})

\* documents of app/locators/url_mapping.yaml
StdUrls ==
    YamlDict({"base_url", "contract", "lead"}, {},
             {<<"base_url", "https://agency-uat.affina.com.vn">>},
             {<<"contract", "list", "/account/contract">>,
              <<"contract", "edit", "/account/contract/edit/{id}">>,
              <<"lead", "note", "/lead/{id}/note/{note_id}">>})
UrlsWithRoot ==
    YamlDict({"base_url", "contract", "dashboard"}, {},
             {<<"base_url", "https://agency-uat.affina.com.vn">>},
             {<<"contract", "list", "/account/contract">>,
              <<"dashboard", "home", "">>})

\* what loading the file can meet: no file, a file yaml.safe_load rejects, or
\* a document
LoadOutcome(kind, doc) == [kind |-> kind, doc |-> doc]
LocatorLoads ==
    {LoadOutcome("missing", EmptyDict), LoadOutcome("parse_error", EmptyDict)}
        \cup {LoadOutcome("loaded", doc) :
                doc \in {StdLocators, LocatorsNullProduct, YamlNone, YamlList}}
UrlLoads ==
    {LoadOutcome("missing", EmptyDict), LoadOutcome("parse_error", EmptyDict)}
        \cup {LoadOutcome("loaded", doc) :
                doc \in {StdUrls, UrlsWithRoot, YamlNone, YamlList}}

\* table.get(key, {}) and table.get(key) of a loaded table: AttributeError
\* when the table is None or a list, the default when the key is not there
DictGet(table, key, default) ==
    IF table.t # "dict" THEN Raised("AttributeError")
    ELSE IF key \notin table.keys THEN default
    ELSE IF key \in table.nulls THEN PyNone
    ELSE IF \E p \in table.strs : p[1] = key
         THEN PyStr((CHOOSE p \in table.strs : p[1] = key)[2])
         ELSE PyDict({<<e[2], e[3]>> : e \in {x \in table.entries : x[1] = key}})

\* value.get(key) on what DictGet returned
InnerGet(value, key) ==
    IF value.t # "dict" THEN Raised("AttributeError")
    ELSE IF \E p \in value.d : p[1] = key
         THEN PyStr((CHOOSE p \in value.d : p[1] = key)[2])
         ELSE PyNone

\* `key in value`
Contains(value, key) ==
    CASE value.t = "dict" -> PyBool(\E p \in value.d : p[1] = key)
      [] value.t = "str" -> PyBool(FALSE)
      [] OTHER -> Raised("TypeError")

\* `not value`
Falsy(value) ==
    \/ value.t = "None"
    \/ value.t = "str" /\ value.s = ""
    \/ value.t = "dict" /\ value.d = {}

\* load_locators, lines 24-45, and the part of load_urls that sets self.urls,
\* lines 32-38: the table after the load. A document that is not a mapping is
\* assigned at line 37 before line 40 raises on it.
TableAfterLoad(table, o) ==
    IF o.kind = "loaded" THEN o.doc ELSE table

\* load_urls, line 40: self.base_url, left alone when the load stopped before
BaseUrlAfterLoad(base, o) ==
    IF o.kind = "loaded" /\ o.doc.t = "dict"
    THEN LET v == DictGet(o.doc, "base_url", PyStr(""))
         IN IF v.t = "str" THEN v.s ELSE "None"
    ELSE base

\* LocatorManager.get, lines 47-66
LocatorManager_get(table, category, element) ==
    LET c == DictGet(table, category, PyDict({}))
        v == IF c.t = "raise" THEN c ELSE InnerGet(c, element)
    IN IF v.t = "raise" THEN PyNone ELSE v

\* LocatorManager.get_all, lines 68-78
LocatorManager_get_all(table, category) == DictGet(table, category, PyDict({}))

\* LocatorManager.has, lines 80-91
LocatorManager_has(table, category, element) ==
    LET c == DictGet(table, category, PyDict({}))
    IN IF c.t = "raise" THEN c ELSE Contains(c, element)

\* the pieces of a path template: text and {name} placeholders
Tokens(path) ==
    CASE path = "/account/contract" -> <<"/account/contract">>
      [] path = "/account/contract/edit/{id}" -> <<"/account/contract/edit/", "{id}">>
      [] path = "/lead/{id}/note/{note_id}" -> <<"/lead/", "{id}", "/note/", "{note_id}">>
      [] OTHER -> <<>>

\* f"{{{key}}}"
Placeholder(key) == "{" \o key \o "}"

\* the pieces put together again
RECURSIVE Join(_)
Join(tokens) == IF tokens = <<>> THEN "" ELSE Head(tokens) \o Join(Tail(tokens))

\* path.replace(f"{{{key}}}", str(value)) on the pieces
Replace(tokens, key, value) ==
    [i \in 1..Len(tokens) |-> IF tokens[i] = Placeholder(key) THEN value ELSE tokens[i]]

\* lines 82-83 and 115-116: the loop over kwargs.items()
RECURSIVE ReplaceAll(_, _)
ReplaceAll(tokens, kwargs) ==
    IF kwargs = <<>> THEN tokens
    ELSE ReplaceAll(Replace(tokens, Head(kwargs)[1], Head(kwargs)[2]), Tail(kwargs))

\* URLManager.get_path, lines 93-122
URLManager_get_path(table, module, action, kwargs) ==
    LET module_urls == DictGet(table, module, PyNone)
    IN IF module_urls.t = "raise" THEN PyNone
       ELSE IF Falsy(module_urls) THEN PyNone
       ELSE LET path == InnerGet(module_urls, action)
            IN IF path.t = "raise" THEN PyNone
               ELSE IF Falsy(path) THEN PyNone
               ELSE PyStr(Join(ReplaceAll(Tokens(path.s), kwargs)))

\* URLManager.get, lines 51-91
URLManager_get(table, base, module, action, kwargs) ==
    LET module_urls == DictGet(table, module, PyNone)
    IN IF module_urls.t = "raise" THEN PyNone
       ELSE IF Falsy(module_urls) THEN PyNone
       ELSE LET path == InnerGet(module_urls, action)
            IN IF path.t = "raise" THEN PyNone
               ELSE IF Falsy(path) THEN PyNone
               ELSE PyStr(base \o Join(ReplaceAll(Tokens(path.s), kwargs)))

\* URLManager.get_all_urls, lines 124-138
URLManager_get_all_urls(table, base, module) ==
    LET module_urls == DictGet(table, module, PyDict({}))
    IN IF module_urls.t = "raise" THEN module_urls
       ELSE IF module_urls.t # "dict" THEN Raised("AttributeError")
       ELSE PyDict({<<p[1], base \o p[2]>> : p \in module_urls.d})

\* the arguments of the lookups
Categories == {"login", "lead", "product"}
Elements == {"email_input", "name_input"}
UrlModules == {"contract", "lead", "dashboard", "base_url"}
UrlActions == {"list", "edit", "note", "home"}
KwargsSets ==
    {<<>>, <<<<"id", "123">>>>, <<<<"id", "123">>, <<"note_id", "7">>>>,
     <<<<"name", "x">>>>}

Lookup(op, a1, a2, kwargs, ret) ==
    [op |-> op, a1 |-> a1, a2 |-> a2, kwargs |-> kwargs, ret |-> ret]

StoreInit ==
    /\ lm_built = FALSE
    /\ locators = EmptyDict
    /\ um_built = FALSE
    /\ urls = EmptyDict
    /\ base_url = ""
    /\ looked = Lookup("none", "", "", <<>>, PyNone)

\* LocatorManager.__init__, lines 13-22
NewLocatorManager(o) ==
    /\ ~lm_built
    /\ UNCHANGED notStore
    /\ lm_built' = TRUE
    /\ locators' = TableAfterLoad(EmptyDict, o)
    /\ UNCHANGED <<um_built, urls, base_url, looked>>

\* URLManager.__init__, lines 13-23
NewURLManager(o) ==
    /\ ~um_built
    /\ UNCHANGED notStore
    /\ um_built' = TRUE
    /\ urls' = TableAfterLoad(EmptyDict, o)
    /\ base_url' = BaseUrlAfterLoad("", o)
    /\ UNCHANGED <<lm_built, locators, looked>>

LocatorGet(category, element) ==
    /\ lm_built
    /\ UNCHANGED notStore
    /\ looked' = Lookup("locator.get", category, element, <<>>,
                        LocatorManager_get(locators, category, element))
    /\ UNCHANGED <<lm_built, locators, um_built, urls, base_url>>

LocatorGetAll(category) ==
    /\ lm_built
    /\ UNCHANGED notStore
    /\ looked' = Lookup("locator.get_all", category, "", <<>>,
                        LocatorManager_get_all(locators, category))
    /\ UNCHANGED <<lm_built, locators, um_built, urls, base_url>>

LocatorHas(category, element) ==
    /\ lm_built
    /\ UNCHANGED notStore
    /\ looked' = Lookup("locator.has", category, element, <<>>,
                        LocatorManager_has(locators, category, element))
    /\ UNCHANGED <<lm_built, locators, um_built, urls, base_url>>

UrlGet(module, action, kwargs) ==
    /\ um_built
    /\ UNCHANGED notStore
    /\ looked' = Lookup("url.get", module, action, kwargs,
                        URLManager_get(urls, base_url, module, action, kwargs))
    /\ UNCHANGED <<lm_built, locators, um_built, urls, base_url>>

UrlGetPath(module, action, kwargs) ==
    /\ um_built
    /\ UNCHANGED notStore
    /\ looked' = Lookup("url.get_path", module, action, kwargs,
                        URLManager_get_path(urls, module, action, kwargs))
    /\ UNCHANGED <<lm_built, locators, um_built, urls, base_url>>

UrlGetAllUrls(module) ==
    /\ um_built
    /\ UNCHANGED notStore
    /\ looked' = Lookup("url.get_all_urls", module, "", <<>>,
                        URLManager_get_all_urls(urls, base_url, module))
    /\ UNCHANGED <<lm_built, locators, um_built, urls, base_url>>

StoreNext ==
    \/ \E o \in LocatorLoads : NewLocatorManager(o)
    \/ \E o \in UrlLoads : NewURLManager(o)
    \/ \E c \in Categories, e \in Elements : LocatorGet(c, e)
    \/ \E c \in Categories : LocatorGetAll(c)
    \/ \E c \in Categories, e \in Elements : LocatorHas(c, e)
    \/ \E m \in UrlModules, a \in UrlActions, k \in KwargsSets : UrlGet(m, a, k)
    \/ \E m \in UrlModules, a \in UrlActions, k \in KwargsSets : UrlGetPath(m, a, k)
    \/ \E m \in UrlModules : UrlGetAllUrls(m)

\* =========================================================================
\*  Code generator (code_generator.py) and the run of what it saved
\* =========================================================================

\* test cases as read_test_cases builds them, one per test id and module
CodeGenTexts ==
    {"Open the Login page", "Create CONTRACT for CTV", "Misleading title",
     "Add Product", "Share Deeplink", "View Dashboard", "KPI Setting", "Edit profile"}

CodeGenCases ==
    {[has |-> {"test_id", "description", "steps", "expected_result", "priority"},
      test_id |-> id, description |-> d, steps |-> "Open the Login page"] :
        id \in TestIds, d \in CodeGenTexts}

\* the code a reply holds, by what the loader can see of it: the name of the
\* async function it defines and whether the file made from it imports
Code(defines, importable) == [defines |-> defines, importable |-> importable]
NoCode == Code("", FALSE)

\* what chat.completions.create can do for a code request: raise, answer
\* without content, or answer with code that defines the function asked for,
\* a function named after the id as written, a function of another name, or
\* code that does not compile; `fenced` says the code came in a markdown fence
CodeOutcomes ==
    [kind : {"raises", "no_content"}, fenced : {FALSE}]
        \cup [kind : {"as_requested", "id_as_written", "other_name", "syntax_error"},
              fenced : BOOLEAN]

\* the function name of a reply
DefinedName(kind, function_name, test_id) ==
    CASE kind = "as_requested" -> function_name
      [] kind = "id_as_written" -> "test_" \o test_id
      [] kind = "syntax_error" -> ""
      [] OTHER -> "test_case"

\* lines 107-108: the name the prompt asks for
PromptFunctionName_AsWritten(test_case) == "test_" \o test_case.test_id

PromptFunctionName(test_case) == "test_" \o Lower(test_case.test_id)

\* `value or {}`
OrEmptyDict(value) == IF Falsy(value) THEN PyDict({}) ELSE value

\* lines 163-167: the category added for the detected module
ModuleCategories_Every(module) == {module} \ {"contract"}

ModuleCategories(module) == {module} \cap {"lead", "product"}

\* lines 157-167: the locators dict, as a set of (category, value) items, or
\* the exception a get_all raised
LocatorBundle(table, module) ==
    LET base == {<<c, LocatorManager_get_all(table, c)>> :
                    c \in {"login", "contract", "common"}}
        extra == {<<c, LocatorManager_get_all(table, c)>> : c \in ModuleCategories(module)}
    IN IF \E p \in base \cup extra : p[2].t = "raise"
       THEN [raised |-> TRUE, items |-> {}]
       ELSE [raised |-> FALSE,
             items |-> base \cup {<<p[1], OrEmptyDict(p[2])>> : p \in extra}]

CodeRequest(ok, module, items, module_urls, function_name) ==
    [sent |-> ok, module |-> module, locators |-> items, module_urls |-> module_urls,
     function_name |-> function_name]
NoRequest == CodeRequest(FALSE, "", {}, {}, "")

\* lines 192-200: strip() and the removal of a markdown fence
CleanCode(o, function_name, test_id) ==
    Code(DefinedName(o.kind, function_name, test_id), o.kind # "syntax_error")

GenOut(success, code, error) == [success |-> success, code |-> code, error |-> error]

\* generate_code, lines 136-223, with _create_prompt, lines 61-134: the request
\* sent, if one was, and the tuple returned
generate_code(table, url_table, base, test_case, o) ==
    LET module == _detect_module(test_case)
        bundle == LocatorBundle(table, module)
        module_urls == URLManager_get_all_urls(url_table, base, module)
        name == PromptFunctionName(test_case)
        request == CodeRequest(TRUE, module, bundle.items, module_urls.d, name)
    IN IF bundle.raised \/ module_urls.t = "raise"
       THEN [request |-> NoRequest,
             out |-> GenOut(FALSE, NoCode, "Error generating code: AttributeError")]
       ELSE IF o.kind = "raises"
       THEN [request |-> request,
             out |-> GenOut(FALSE, NoCode, "Error generating code: APIError")]
       ELSE IF o.kind = "no_content"
       THEN [request |-> request,
             out |-> GenOut(FALSE, NoCode, "Error generating code: AttributeError")]
       ELSE [request |-> request,
             out |-> GenOut(TRUE, CleanCode(o, name, test_case.test_id), None)]

\* line 289
Filename(output_dir, test_id) == output_dir \o "/test_" \o Lower(test_id) \o ".py"

\* save_generated_code, lines 269-331: the file written and the value returned
save_generated_code(test_id, code, output_dir, writeOk) ==
    IF writeOk
    THEN [exists |-> TRUE, path |-> Filename(output_dir, test_id), code |-> code,
          ret |-> TRUE]
    ELSE [exists |-> FALSE, path |-> Filename(output_dir, test_id), code |-> NoCode,
          ret |-> FALSE]
NoFile == [exists |-> FALSE, path |-> "", code |-> NoCode, ret |-> FALSE]

\* execute_test_code, lines 246-258: what loading the file at code_file gives
ArtifactOf(file, test_id) ==
    IF ~file.exists THEN "missing"
    ELSE IF ~file.code.importable THEN "load_error"
    ELSE IF file.code.defines # TestFunctionName(test_id) THEN "no_entry"
    ELSE "ok"

CodeGenInit ==
    /\ cpc = "new"
    /\ gen_in = [has |-> {}, test_id |-> "", description |-> "", steps |-> ""]
    /\ sent = NoRequest
    /\ gen_out = GenOut(FALSE, NoCode, "not returned")
    /\ saved = NoFile
    /\ run_out = PendingResult("")

\* CodeGenerator.__init__, lines 16-28: the generator takes the two stores
NewCodeGenerator ==
    /\ cpc = "new"
    /\ lm_built /\ um_built
    /\ UNCHANGED notCodeGen
    /\ cpc' = "ready"
    /\ UNCHANGED <<gen_in, sent, gen_out, saved, run_out>>

\* generate_code(test_case)
GenerateCode(test_case, o) ==
    /\ cpc = "ready"
    /\ UNCHANGED notCodeGen
    /\ LET r == generate_code(locators, urls, base_url, test_case, o)
       IN /\ sent' = r.request
          /\ gen_out' = r.out
    /\ gen_in' = test_case
    /\ cpc' = "generated"
    /\ UNCHANGED <<saved, run_out>>

\* save_generated_code(test_id, code) with the default output_dir, called when
\* generate_code succeeded
SaveGeneratedCode(writeOk) ==
    /\ cpc = "generated"
    /\ gen_out.success
    /\ UNCHANGED notCodeGen
    /\ saved' = save_generated_code(gen_in.test_id, gen_out.code, "tests/generated",
                                    writeOk)
    /\ cpc' = "saved"
    /\ UNCHANGED <<gen_in, sent, gen_out, run_out>>

\* execute_test_code(test_id, code_file) on a started session, and the result
\* run_single_test makes of it (lines 362-370)
RunSavedCode(e, ep, shotOk) ==
    /\ cpc = "saved"
    /\ UNCHANGED notCodeGen
    /\ run_out' =
          ExecutedResult(PendingResult(gen_in.test_id),
                         execute_test_code(gen_in.test_id,
                                           ArtifactOf(saved, gen_in.test_id),
                                           e, ep, TRUE, shotOk))
    /\ cpc' = "ran"
    /\ UNCHANGED <<gen_in, sent, gen_out, saved>>

CodeGenNext ==
    \/ \E o \in LocatorLoads : NewLocatorManager(o)
    \/ \E o \in UrlLoads : NewURLManager(o)
    \/ NewCodeGenerator
    \/ \E tc \in CodeGenCases, o \in CodeOutcomes : GenerateCode(tc, o)
    \/ \E w \in BOOLEAN : SaveGeneratedCode(w)
    \/ \E e \in ExcTexts, ep \in EntryOutcomes, s \in BOOLEAN : RunSavedCode(e, ep, s)

\* =========================================================================
\*  Batch code generation (code_generator.py, generate_batch)
\* =========================================================================

\* longest test_cases list handed to generate_batch
MaxBatchLen == 3

\* the test cases of the lists, as read_test_cases builds them
BatchCases ==
    {[has |-> {"test_id", "description", "steps", "expected_result", "priority"},
      test_id |-> "TC001", description |-> "Create CONTRACT for CTV",
      steps |-> "Open the Login page"],
     [has |-> {"test_id", "description", "steps", "expected_result", "priority"},
      test_id |-> "Tc002", description |-> "Add Product",
      steps |-> "Open the Login page"]}

\* the test_cases arguments: the empty list and the lists of 1 to MaxBatchLen
\* test cases, the same test case more than once included
BatchLists == {<<>>} \cup SeqFrom1To(BatchCases, MaxBatchLen)

\* the max_count arguments: none, fewer than, as many as and more than the
\* test cases of a list; 5 is the default of line 225
MaxCounts == {0, 1, 2, 5}

\* the stores the generator of a batch is built on: a locator file that loads
\* and an empty one, and a URL file that loads
BatchLocatorLoads == {LoadOutcome("loaded", StdLocators), LoadOutcome("loaded", YamlNone)}
BatchUrlLoads == {LoadOutcome("loaded", StdUrls)}

\* what the model service does for the code requests of a batch
BatchOutcomes ==
    {[kind |-> "raises", fenced |-> FALSE], [kind |-> "no_content", fenced |-> FALSE],
     [kind |-> "as_requested", fenced |-> TRUE]}

\* a slice that keeps one element more
PySliceTo_Inclusive(seq, n) == SubSeq(seq, 1, Min(Len(seq), n + 1))

\* seq[:n]
PySliceTo(seq, n) ==
    IF n >= 0 THEN SubSeq(seq, 1, Min(Len(seq), n))
    ELSE SubSeq(seq, 1, Max(Len(seq) + n, 0))

\* lines 250-255: the result dict of one test case
BatchResult(test_case, out) ==
    [test_case |-> test_case, success |-> out.success, code |-> out.code,
     error |-> out.error]

\* lines 259-260
CountSuccess(count, success) == IF success THEN count + 1 ELSE count

NoBatchArgs == [test_cases |-> <<>>, max_count |-> 0]
NoBatchReturn == [returned |-> FALSE, success_count |-> 0, results |-> <<>>]

BatchInit ==
    /\ bpc = "idle"
    /\ batch_args = NoBatchArgs
    /\ started = <<>>
    /\ results = <<>>
    /\ success_count = 0
    /\ batch_ret = NoBatchReturn

\* generate_batch(test_cases, max_count) is entered, lines 225-242, on a
\* generator whose stores are built
BatchStart(test_cases, max_count) ==
    /\ bpc = "idle"
    /\ lm_built /\ um_built
    /\ UNCHANGED notBatch
    /\ bpc' = "loop"
    /\ batch_args' = [test_cases |-> test_cases, max_count |-> max_count]
    /\ started' = <<>>
    /\ results' = <<>>
    /\ success_count' = 0
    /\ UNCHANGED batch_ret

\* lines 245-248: the loop takes the next test case of test_cases[:max_count]
\* and calls generate_code
BatchCall ==
    /\ bpc = "loop"
    /\ Len(results) < Len(PySliceTo(batch_args.test_cases, batch_args.max_count))
    /\ UNCHANGED notBatch
    /\ bpc' = "call"
    /\ started' =
          Append(started,
                 PySliceTo(batch_args.test_cases,
                           batch_args.max_count)[Len(results) + 1].test_id)
    /\ UNCHANGED <<batch_args, results, success_count, batch_ret>>

\* lines 248-260: generate_code returns, the result is appended and counted
BatchCallReturn(o) ==
    /\ bpc = "call"
    /\ UNCHANGED notBatch
    /\ LET test_case == PySliceTo(batch_args.test_cases,
                                  batch_args.max_count)[Len(results) + 1]
           out == generate_code(locators, urls, base_url, test_case, o).out
       IN /\ results' = Append(results, BatchResult(test_case, out))
          /\ success_count' = CountSuccess(success_count, out.success)
    /\ bpc' = "loop"
    /\ UNCHANGED <<batch_args, started, batch_ret>>

\* lines 262-267: the loop is over, the tuple is returned
BatchReturn ==
    /\ bpc = "loop"
    /\ Len(results) >= Len(PySliceTo(batch_args.test_cases, batch_args.max_count))
    /\ UNCHANGED notBatch
    /\ bpc' = "done"
    /\ batch_ret' = [returned |-> TRUE, success_count |-> success_count,
                     results |-> results]
    /\ UNCHANGED <<batch_args, started, results, success_count>>

BatchNext ==
    \/ \E o \in BatchLocatorLoads : NewLocatorManager(o)
    \/ \E o \in BatchUrlLoads : NewURLManager(o)
    \/ \E l \in BatchLists, m \in MaxCounts : BatchStart(l, m)
    \/ BatchCall
    \/ \E o \in BatchOutcomes : BatchCallReturn(o)
    \/ BatchReturn

GenNext ==
    \/ \E t \in TargetCounts, m \in BOOLEAN : GenStart(t, m)
    \/ \E o \in CallOutcomes : CallBatch(o)
    \/ ParseBatch

RunnerNext ==
    \/ \E id \in TestIds, art \in ArtifactStates : Call(id, art)
    \/ \E o \in StartOutcomes, e \in ExcTexts : StartBrowser(o, e)
    \/ \E p \in LoginPaths, e \in ExcTexts, s1, s2 \in BOOLEAN : Login(p, e, s1, s2)
    \/ \E e \in ExcTexts, ep \in EntryOutcomes, s \in BOOLEAN : ExecuteTestCode(e, ep, s)
    \/ \E t \in 0..MaxElapsed : Return(t)

vars == <<runnerVars, genVars, loginVars, reporterVars, readerVars, classifierVars, estimatorVars, singletonVars, storeVars, codegenVars, batchVars>>

Init ==
    /\ RunnerInit
    /\ GenInit
    /\ LoginInit
    /\ ReporterInit
    /\ ReaderInit
    /\ ClassifierInit
    /\ EstimatorInit
    /\ SingletonInit
    /\ StoreInit
    /\ CodeGenInit
    /\ BatchInit

\* the execution engine on its own
Spec == Init /\ [][RunnerNext]_vars

\* the generation engine on its own
SpecGen == Init /\ [][GenNext]_vars

\* one login call on its own
SpecLogin == Init /\ [][LoginNext]_vars

\* the reporter and its worksheet on their own
SpecReporter == Init /\ [][ReporterNext]_vars

\* the sheet reader on its own
SpecReader == Init /\ [][ReaderNext]_vars

\* the module classifier on its own
SpecClassifier == Init /\ [][ClassifierNext]_vars

\* the coverage estimate on its own
SpecEstimator == Init /\ [][EstimatorNext]_vars

\* the singleton accessors and their calling threads on their own
SpecSingleton == Init /\ [][SingletonNext]_vars

\* the two configuration stores and their lookups on their own
SpecStore == Init /\ [][StoreNext]_vars

\* the code generator with its stores, and the run of the code it saved
SpecCodeGen == Init /\ [][CodeGenNext]_vars

\* generate_batch on its own
SpecBatch == Init /\ [][BatchNext]_vars

\* -------------------------------------------------------------------------
\*  Claims about the Automation Execution Engine
\* -------------------------------------------------------------------------

\* C1: a generated entry point is invoked only when this engine has successfully
\* started its browser and successfully authenticated (EXECUTING is reached
\* only from AUTHENTICATED), also in calls that follow a failed start or login.
C1_ExecutingOnlyWhenAuthenticated ==
    hist.invoked => (startedOk /\ loginOk)

\* C6: whatever the outcomes of browser start, login, code loading, entry point
\* and screenshot capture, a call always gets to its return with status PASS or
\* FAIL (never PENDING), hands that record to the caller, and the caller can go on.
C6_AlwaysPassOrFail ==
    /\ pc = "ret" => result.status \in {"PASS", "FAIL"}
    /\ (pc = "idle" /\ calls > 0) =>
            /\ lastResult.status \in {"PASS", "FAIL"}
            /\ lastResult.test_id = cur.test_id
    /\ pc # "idle" => ENABLED RunnerNext
    /\ (pc = "idle" /\ calls < MaxCalls) => ENABLED (\E id \in TestIds : Call(id, "ok"))

\* C6 witness: a second call has returned FAIL after a failed login
C6_Witness ==
    /\ pc = "idle"
    /\ calls >= 2
    /\ hist.branch = "login_failed"
    /\ lastResult.status = "FAIL"

\* C7: the browser is launched at most once and login is performed at most once
\* per engine instance, and a call that begins after a successful start and
\* login performs neither.
C7_SessionReuse ==
    /\ launchCount <= 1
    /\ loginCount <= 1
    /\ settled => (~hist.startCalled /\ ~hist.loginCalled /\ pc \notin {"start", "login"})

\* C7 witness: a later call ran its test on the session an earlier call set up
C7_Witness ==
    /\ settled
    /\ calls >= 2
    /\ hist.executed
    /\ launchCount = 1
    /\ loginCount = 1

\* C8: once the entry point is loaded: truthy return -> success, no error, no
\* screenshot attempt; falsy return -> failure, one attempt tagged
\* assertion_failed; expiry of the 120 s timeout -> failure, one attempt tagged
\* timeout; any other exception -> failure, one attempt tagged error, and the
\* exception's own text as the error message.
C8_ExecutionBranches ==
    (hist.executed /\ cur.art = "ok") =>
        /\ hist.invoked
        /\ CASE hist.ep.kind = "truthy" ->
                    /\ result.status = "PASS"
                    /\ result.error_message = None
                    /\ hist.shots = <<>>
             [] hist.ep.kind = "falsy" ->
                    /\ result.status = "FAIL"
                    /\ Len(hist.shots) = 1
                    /\ hist.shots[1].reason = "assertion_failed"
             [] hist.ep.kind = "expiry" ->
                    /\ result.status = "FAIL"
                    /\ Len(hist.shots) = 1
                    /\ hist.shots[1].reason = "timeout"
             [] OTHER ->
                    /\ result.status = "FAIL"
                    /\ Len(hist.shots) = 1
                    /\ hist.shots[1].reason = "error"
                    /\ result.error_message = hist.ep.text

\* C9: when the code file is missing, fails to load, or lacks the entry point,
\* execute_test_code returns failure with an error message, attempts no
\* screenshot and never invokes a function of the artifact with the page.
C9_LoadFailure ==
    (hist.executed /\ cur.art # "ok") =>
        /\ result.status = "FAIL"
        /\ result.error_message # None
        /\ result.screenshot_path = None
        /\ hist.shots = <<>>
        /\ ~hist.invoked

\* C9 witness: a loaded module without the entry point, with a live page
C9_Witness ==
    /\ hist.executed
    /\ cur.art = "no_entry"
    /\ page
    /\ pc = "ret"

\* the error message of a failure path when its capture succeeds
MessageWhenCaptured ==
    CASE hist.branch = "login_failed" ->
            LoginFailedResult(PendingResult(cur.test_id), login(hist.path, hist.e).error,
                              ScreenshotPath(cur.test_id, "login_failed")).error_message
      [] hist.executed ->
            ExecutedResult(PendingResult(cur.test_id),
                           execute_test_code(cur.test_id, cur.art, hist.e, hist.ep,
                                             TRUE, TRUE)).error_message
      [] OTHER -> result.error_message

\* C10: on every failure path a failing screenshot capture changes nothing but
\* the screenshot reference: the status is FAIL, the error message is the one
\* the path gives when the capture succeeds, screenshot_path is absent; and a
\* capture yields a path or nothing, never an exception.
C10_ScreenshotFailureMasksNothing ==
    (pc = "ret" /\ hist.shots # <<>>) =>
        LET last == hist.shots[Len(hist.shots)]
        IN /\ \A i \in DOMAIN hist.shots :
                hist.shots[i].path \in
                    {None, ScreenshotPath(hist.shots[i].test_id, hist.shots[i].reason)}
           /\ result.status = "FAIL"
           /\ result.screenshot_path = last.path
           /\ result.error_message = MessageWhenCaptured

\* C10 witness: the capture failed on a live page, after an entry point error and
\* after a failed login
C10_Witness ==
    /\ pc = "ret"
    /\ page
    /\ hist.shots # <<>>
    /\ hist.shots[Len(hist.shots)].path = None
    /\ hist.branch \in {"error", "login_failed"}

\* -------------------------------------------------------------------------
\*  Claims about the Batch Test-Case Generation Engine
\* -------------------------------------------------------------------------

\* the run in progress uses the 3-batch protocol and has returned
BatchRunDone == gpc = "done" /\ UseBatches(gArgs.target_count, gArgs.batch_mode)

\* the lists of a sequence of lists, joined in order
RECURSIVE Flatten(_)
Flatten(ss) == IF ss = <<>> THEN <<>> ELSE Head(ss) \o Flatten(Tail(ss))

Abs(x) == IF x < 0 THEN -x ELSE x

\* p is n / total as a percentage, to the nearest tenth (p in tenths of a percent)
NearestTenth(p, n, total) == 2 * Abs(p * total - 1000 * n) <= total

\* C2: batch 1 succeeds and batch 2 fails (call error or unparseable reply):
\* overall success, a non-empty list equal to batch 1's records, breakdown with
\* batch 1 at count = len(batch 1) and 100.0, batches 2 and 3 at 0 and 0.0.
C2_Batch2FailureKeepsBatch1 ==
    (BatchRunDone /\ failedAt = 2) =>
        /\ gRet.success
        /\ gRet.test_cases # <<>>
        /\ gRet.test_cases = parsed[1]
        /\ gRet.breakdown.batch1_happy_path.count = Len(parsed[1])
        /\ gRet.breakdown.batch1_happy_path.percentage = 1000
        /\ gRet.breakdown.batch2_validation.count = 0
        /\ gRet.breakdown.batch2_validation.percentage = 0
        /\ gRet.breakdown.batch3_edge_cases.count = 0
        /\ gRet.breakdown.batch3_edge_cases.percentage = 0

\* C2 witness: batch 2's reply parsed into no valid record after batch 1 gave two
C2_Witness ==
    /\ BatchRunDone
    /\ failedAt = 2
    /\ Len(parsed[1]) = 2
    /\ response.kind = "array"
    /\ response.items # <<>>

\* C3: batch 1 fails: overall failure, empty list, an error, no breakdown, and
\* no request for batch 2 or batch 3 is issued.
C3_Batch1FailureIsFatal ==
    (BatchRunDone /\ failedAt = 1) =>
        /\ ~gRet.success
        /\ gRet.test_cases = <<>>
        /\ gRet.error # None
        /\ gRet.breakdown = NoneDict
        /\ Len(requests) = 1
        /\ requests[1].batch = 1
        /\ ~ENABLED GenNext

\* C3 witness: batch 1's reply held only an element with a missing field
C3_Witness ==
    /\ BatchRunDone
    /\ failedAt = 1
    /\ response.kind = "array"
    /\ response.items # <<>>

\* C4: requests go out in the order batch 1, 2, 3; the request for batch N+1 is
\* issued only after batch N's call and parse both succeeded; after the first
\* failing batch no request is issued; the returned list is the concatenation,
\* in batch order, of the records of the batches that succeeded.
C4_BatchesInOrder ==
    UseBatches(gArgs.target_count, gArgs.batch_mode) =>
        /\ \A i \in DOMAIN requests : requests[i].batch = i
        /\ Len(requests) <= 3
        /\ Len(requests) <= Len(parsed) + 1
        /\ failedAt # 0 => (Len(requests) = failedAt /\ gpc = "done"
                             /\ Len(parsed) = failedAt - 1)
        /\ gpc = "done" =>
                /\ gRet.test_cases = Flatten(parsed)
                /\ ~ENABLED GenNext
                /\ failedAt = 0 => Len(parsed) = 3

\* C4 witness: three batches succeeded with different records
C4_Witness ==
    /\ BatchRunDone
    /\ failedAt = 0
    /\ Len(requests) = 3
    /\ parsed[1] # parsed[2]
    /\ parsed[2] # parsed[3]

\* C5: batches 1 and 2 succeed and batch 3 fails: overall success with the
\* records of batches 1 and 2; batch 3 has count 0 and 0.0; the percentages of
\* batches 1 and 2 are taken over count1 + count2, not over the target count.
C5_Batch3FailurePercentages ==
    (BatchRunDone /\ failedAt = 3) =>
        LET c1 == Len(parsed[1])
            c2 == Len(parsed[2])
            b == gRet.breakdown
        IN /\ gRet.success
           /\ gRet.test_cases = parsed[1] \o parsed[2]
           /\ b.batch3_edge_cases.count = 0
           /\ b.batch3_edge_cases.percentage = 0
           /\ b.batch1_happy_path.count = c1
           /\ b.batch2_validation.count = c2
           /\ NearestTenth(b.batch1_happy_path.percentage, c1, c1 + c2)
           /\ NearestTenth(b.batch2_validation.percentage, c2, c1 + c2)

\* C5 witness: batch 3 failed after batches of one and two records (33.3 / 66.7)
C5_Witness ==
    /\ BatchRunDone
    /\ failedAt = 3
    /\ Len(parsed[1]) = 1
    /\ Len(parsed[2]) = 2
    /\ gRet.breakdown.batch1_happy_path.percentage = 333
    /\ gRet.breakdown.batch2_validation.percentage = 667

\* -------------------------------------------------------------------------
\*  Claims about PlaywrightRunner.login
\* -------------------------------------------------------------------------

\* the attempts of chain c, counted up to position k of tried
AttemptsOf(c, k) == {j \in 1..k : tried[j].chain = c}

\* chain c went through its whole list without a success
Exhausted(c) ==
    /\ Cardinality(AttemptsOf(c, Len(tried))) = Len(Selectors(c))
    /\ \A j \in AttemptsOf(c, Len(tried)) : ~tried[j].acted

\* the message of each chain
ChainMessage(c) ==
    CASE c = 1 -> "Could not find username input field"
      [] c = 2 -> "Could not find password input field"
      [] c = 3 -> "Could not find login button"

\* C11: selectors are tried only once the login page was detected; each chain
\* walks its own list in list order and stops at its first success (found and
\* filled / clicked); a chain starts only after the chain before it succeeded;
\* and a chain that exhausts makes login return failure with that chain's own
\* message, no later chain having been attempted.
C11_ChainsInOrder ==
    /\ tried # <<>> => (observed # <<>> /\ IsLoginPage(observed[1]))
    /\ \A k \in 1..Len(tried) :
          LET a == tried[k]
          IN /\ a.chain \in 1..3
             /\ a.index = Cardinality(AttemptsOf(a.chain, k))
             /\ a.index <= Len(Selectors(a.chain))
             /\ a.selector = Selectors(a.chain)[a.index]
             /\ \A j \in 1..(k - 1) :
                   /\ tried[j].chain <= a.chain
                   /\ tried[j].chain = a.chain => ~tried[j].acted
             /\ a.chain > 1 =>
                   \E j \in 1..(k - 1) : tried[j].chain = a.chain - 1 /\ tried[j].acted
    /\ \A c \in 1..3 :
          /\ (lpc = "done" /\ Exhausted(c)) =>
                /\ lret = [success |-> FALSE, error |-> ChainMessage(c)]
                /\ \A k \in 1..Len(tried) : tried[k].chain <= c
          /\ (lpc = "done" /\ lret.error = ChainMessage(c)) => Exhausted(c)

\* the password chain exhausted after the username chain succeeded on its third
\* selector, whose two predecessors failed in the two possible ways
C11_Witness ==
    /\ lpc = "done"
    /\ Exhausted(2)
    /\ Len(tried) = 6
    /\ ~tried[1].found
    /\ tried[2].found /\ ~tried[2].acted
    /\ tried[3].acted
    /\ lret.error = "Could not find password input field"

\* the locations that indicate a login page, whatever their letter case
LocationIndicatesLogin(u) == u \in {"https://app/login", "https://app/Login?next=home"}

\* what login captured when it found itself still on the login page
StillOnLoginShot(s) == s.test_id = "LOGIN" /\ s.reason = "still_on_login_page"

\* C12: login returns success only when the last location it observed does not
\* indicate a login page; when the location after the initial navigation is
\* not a login page it succeeds with no selector tried; and when the location
\* after submit still indicates a login page it makes its screenshot capture
\* and returns failure.
C12_SuccessOnlyOffLoginPage ==
    lpc = "done" =>
        /\ lret.success =>
              /\ observed # <<>>
              /\ ~LocationIndicatesLogin(observed[Len(observed)])
        /\ (observed # <<>> /\ ~LocationIndicatesLogin(observed[1])) =>
              /\ lret = [success |-> TRUE, error |-> None]
              /\ tried = <<>>
              /\ filled = NoFlags
              /\ lshots = <<>>
        /\ (Len(observed) = 2 /\ LocationIndicatesLogin(observed[2])) =>
              /\ Len(lshots) = 1
              /\ StillOnLoginShot(lshots[1])
              /\ lret = [success |-> FALSE,
                         error |-> "Login failed - still on login page"]

\* all three chains succeeded and the location after submit is a login page
\* spelled with a capital letter
C12_Witness ==
    /\ lpc = "done"
    /\ filled.login_clicked
    /\ Len(observed) = 2
    /\ observed[2] = "https://app/Login?next=home"
    /\ Len(lshots) = 1
    /\ ~lret.success

\* -------------------------------------------------------------------------
\*  Claims about the Result Reporter
\* -------------------------------------------------------------------------

\* a report_result call has finished and none is in progress
ReportDone == rpc = "idle" /\ reported.n > 0

\* the last successful write of the finished call to the cell of write k
LastGoodWrite(k) ==
    /\ reported.writes[k].ok
    /\ \A j \in (k + 1)..Len(reported.writes) :
          (reported.writes[j].col = reported.writes[k].col) => ~reported.writes[j].ok

\* C13: when a write of the status, error or screenshot cell made by a
\* report_result call failed, that call returns false; and every cell the call
\* wrote successfully holds the value written (nothing is rolled back).
C13_WriteFailureReturnsFalse ==
    ReportDone =>
        /\ (\E k \in 1..Len(reported.writes) : ~reported.writes[k].ok) => ~reported.ret
        /\ \A k \in 1..Len(reported.writes) :
              LastGoodWrite(k) =>
                  cells[reported.writes[k].row][reported.writes[k].col]
                      = reported.writes[k].value

\* the texts the screenshot cell can get from a result and the state of its file
ScreenshotCells(res, fs) ==
    LET screenshot_path == Get(res, "screenshot_path", None)
    IN IF Truthy(screenshot_path) /\ fs # "missing"
       THEN {ScreenshotText(screenshot_path), FallbackText(screenshot_path)}
       ELSE {""}

\* C14: after a report_result call that returned true, the cells 6, 7, 8 of its
\* row hold what the last reported result says (its status, its error text, a
\* descriptor of its screenshot), whatever earlier reports wrote there; a PASS
\* with no error and no screenshot leaves cells 7 and 8 empty.
C14_CellsFromLastResult ==
    (ReportDone /\ reported.ret) =>
        LET r == reported.test_case.row_number
        IN /\ cells[r][6] = Get(reported.result, "status", "UNKNOWN")
           /\ cells[r][7] = ErrorCell(reported.result)
           /\ cells[r][8] \in ScreenshotCells(reported.result, reported.fs)
           /\ reported.result = ResultPass => (cells[r][7] = "" /\ cells[r][8] = "")

\* the run left the header cells as it found them and called update_cell never
EnsureNoOp ==
    /\ ensured.updates = <<>>
    /\ ensured.attempted = 0
    /\ ensured.after = ensured.before

\* a header of column 7 or 8 that was not blank is what it was
NonBlankHeadersKept ==
    \A c \in {7, 8} : ~Blank(ensured.before[c]) => ensured.after[c] = ensured.before[c]

C16_NoRowNumber ==
    /\ (rpc # "idle" /\ rpc # "new" /\ "row_number" \notin rcall.test_case.has) =>
          (writes = <<>> /\ cells = rcall.before)
    /\ (ReportDone /\ "row_number" \notin reported.test_case.has) =>
          /\ ~reported.ret
          /\ reported.writes = <<>>
          /\ cells = reported.before

\* a call without a row number got as far as the row test (its ensure step
\* wrote headers) on a worksheet whose data rows hold earlier results
C16_Witness ==
    /\ ReportDone
    /\ reported.test_case = TC003
    /\ reported.n = ensured.n
    /\ ensured.updates # <<>>
    /\ reported.before # EmptyCells

\* -------------------------------------------------------------------------
\*  Claims about the Sheet Reader
\* -------------------------------------------------------------------------

\* read_test_cases has returned
ReadDone == rdpc = "done"

\* C17: read_test_cases returns failure with an empty list whenever the
\* worksheet has fewer than 4 rows or the named worksheet does not exist, and
\* every failure return carries an empty list and an error message.
C17_FailureIsEmpty ==
    ReadDone =>
        /\ (Len(read_in.all_values) < 4 \/ read_in.ro = "no_worksheet") =>
              ~read_out.success
        /\ ~read_out.success =>
              /\ read_out.test_cases = <<>>
              /\ read_out.error \notin {None, ""}

\* a worksheet of title, empty row and header row only was read to the end
C17_Witness ==
    /\ ReadDone
    /\ Len(read_in.all_values) = 3
    /\ read_in.ro = "ok"
    /\ read_out.error = "Worksheet has insufficient data (need at least 4 rows)"
    /\ read_out.test_cases = <<>>

\* the test cases read from worksheet row i (1-based)
FromRow(i) ==
    {k \in 1..Len(read_out.test_cases) : read_out.test_cases[k].row_number = i}

\* the first cell of the row, trimmed, is non-empty and starts with the prefix
Prefixed(row, prefix) ==
    /\ row # <<>>
    /\ StripCell(row[1]) # ""
    /\ StartsWith(StripCell(row[1]), prefix)

\* C18: a successful read includes a data row (row 4 onward) iff its first
\* cell is non-empty and starts with the configured test-id prefix; an included
\* row gets "" for a missing description, steps or expected-result cell and
\* "Medium" for a missing priority cell.
C18_IncludedIffPrefixed ==
    (ReadDone /\ read_out.success) =>
        \A i \in 4..Len(read_in.all_values) :
            LET row == read_in.all_values[i]
            IN /\ (FromRow(i) # {}) <=> Prefixed(row, TEST_CASE_PREFIX)
               /\ \A k \in FromRow(i) :
                     LET tc == read_out.test_cases[k]
                     IN /\ Len(row) < 2 => tc.description = ""
                        /\ Len(row) < 3 => tc.steps = ""
                        /\ Len(row) < 4 => tc.expected_result = ""
                        /\ Len(row) < 5 => tc.priority = "Medium"

\* C19: every test case a successful read returns carries the 1-based index of
\* the worksheet row it was read from, which is at least 4; the list is in
\* worksheet order; and a worksheet whose only data row is
\* TC001, desc, steps, expected, High at row 4 gives exactly one test case, with
\* id TC001, priority High and row 4.
C19_SourceRows ==
    (ReadDone /\ read_out.success) =>
        LET tcs == read_out.test_cases
            all_values == read_in.all_values
        IN /\ \A k \in 1..Len(tcs) :
                 /\ tcs[k].row_number \in 4..Len(all_values)
                 /\ all_values[tcs[k].row_number] # <<>>
                 /\ tcs[k].test_id = StripCell(all_values[tcs[k].row_number][1])
                 /\ \A j \in 1..(k - 1) : tcs[j].row_number < tcs[k].row_number
           /\ (Len(all_values) = 4
               /\ all_values[4] = <<"TC001", "desc", "steps", "expected", "High">>) =>
                 /\ Len(tcs) = 1
                 /\ tcs[1].test_id = "TC001"
                 /\ tcs[1].priority = "High"
                 /\ tcs[1].row_number = 4

\* row 4 was skipped and row 5 read: the one test case returned carries 5
C19_Witness ==
    /\ ReadDone
    /\ read_out.success
    /\ Len(read_in.all_values) = 5
    /\ read_in.all_values[4] = <<"", "orphan">>
    /\ Len(read_out.test_cases) = 1
    /\ read_out.test_cases[1].test_id = "TC001"
    /\ read_out.test_cases[1].row_number = 5

\* -------------------------------------------------------------------------
\*  Claims about the module classifier
\* -------------------------------------------------------------------------

\* the seven tags
ModuleTags == {"contract", "lead", "product", "deeplink", "report", "settings", "profile"}

\* the (description, steps) text of a test case dict, a missing one being empty
TextOf(tc) == <<Get(tc, "description", ""), Get(tc, "steps", "")>>

\* no keyword of any group occurs in the text, whatever its letter case
NoKeyword(tc) ==
    \A g \in 1..Len(KeywordGroups) : \A word \in KeywordGroups[g].words :
        /\ word \notin KeywordsIn(LowerText(TextOf(tc)[1]))
        /\ word \notin KeywordsIn(LowerText(TextOf(tc)[2]))

\* C20: every _detect_module call returns one of the seven tags; it returns
\* contract when no keyword of any group occurs in description or steps, a
\* missing one counting as empty; and two calls in succession on the same
\* (description, steps) text return the same tag.
C20_ModuleClassification ==
    [][/\ module_out' \in ModuleTags
       /\ NoKeyword(module_in') => module_out' = "contract"
       /\ (classified /\ TextOf(module_in') = TextOf(module_in)) =>
             module_out' = module_out]_vars

\* a test case without a description key and with steps that hold no keyword
\* was classified
C20_Witness ==
    /\ classified
    /\ "description" \notin module_in.has
    /\ module_in.steps = "Open the Login page"
    /\ module_out = "contract"

\* the fixed order of the groups
GroupOrder == <<"contract", "lead", "product", "deeplink", "report", "settings", "profile">>

\* the place of a tag in that order
Rank(m) == CHOOSE i \in 1..Len(GroupOrder) : GroupOrder[i] = m

\* the keywords of a group that occur in the lower-cased description or steps
MatchesOf(tc, g) ==
    {word \in KeywordGroups[g].words :
        \/ word \in KeywordsIn(LowerText(TextOf(tc)[1]))
        \/ word \in KeywordsIn(LowerText(TextOf(tc)[2]))}

\* the tags of the groups with at least one keyword in the test case
MatchedTags(tc) ==
    {KeywordGroups[g].module : g \in {h \in 1..Len(KeywordGroups) : MatchesOf(tc, h) # {}}}

\* C21: when keywords of one or several groups occur in the lower-cased
\* description or steps of the classified test case, the returned tag is the
\* matched group that comes first in the order contract, lead, product,
\* deeplink, report, settings, profile, however many keywords the later
\* groups match.
C21_FirstGroupWins ==
    (classified /\ MatchedTags(module_in) # {}) =>
        /\ module_out \in MatchedTags(module_in)
        /\ \A m \in MatchedTags(module_in) : Rank(module_out) <= Rank(m)

\* a description that matches lead once, as a part of another word, with
\* steps that match settings twice, was classified as lead
C21_Witness ==
    /\ classified
    /\ module_in.has = {"description", "steps"}
    /\ module_in.description = "Misleading title"
    /\ module_in.steps = "KPI Setting"
    /\ MatchesOf(module_in, 2) = {"lead"}
    /\ MatchesOf(module_in, 6) = {"setting", "kpi"}
    /\ module_out = "lead"

\* -------------------------------------------------------------------------
\*  Claims about the choice of protocol and the parsing of replies
\* -------------------------------------------------------------------------

\* the run in progress was started with batch mode enabled and a target of 70
\* or more
BatchModeAndTarget70 == gArgs.batch_mode /\ gArgs.target_count >= 70

\* the requests issued so far follow the 3-batch protocol: they are the
\* happy-path, validation and edge-case requests, in that order
ThreeBatchRequests ==
    \A i \in 1..Len(requests) :
        requests[i].template = <<"ui_happy_path", "ui_validation", "ui_edge_cases">>[i]

RequestedSizes == <<30, 30, gArgs.target_count - 60>>

\* C23: in a 3-batch run the sizes asked for are 30, 30 and target_count - 60,
\* request by request; once the three requests are out their sizes sum to
\* target_count and the third is at least 10.
C23_BatchSizes ==
    (gpc # "idle" /\ UseBatches(gArgs.target_count, gArgs.batch_mode)) =>
        /\ \A i \in 1..Len(requests) : requests[i].count = RequestedSizes[i]
        /\ Len(requests) = 3 =>
              /\ requests[1].count + requests[2].count + requests[3].count
                    = gArgs.target_count
              /\ requests[3].count >= 10

\* a 3-batch run for the smallest target, 70, sent its third request, for 10
\* records
C23_Witness ==
    /\ gArgs = [target_count |-> 70, batch_mode |-> TRUE]
    /\ Len(requests) = 3
    /\ requests[3].count = 10

\* the element has every required field
HasRequiredFields(item) ==
    item.json = "object" /\ {"description", "steps", "expected_result", "priority"} \subseteq item.has

\* the elements of a reply that have every required field, in their order,
\* with their fields trimmed and the priority capitalised
RemainingElements(items) ==
    LET kept == SelectSeq(items, HasRequiredFields)
    IN [i \in 1..Len(kept) |-> Normalized(kept[i])]

\* C24: when the reply being parsed is a JSON array, whatever its elements
\* are, the parse keeps the elements that have description, steps,
\* expected_result and priority, in their original order, dropping the others
\* one by one, and fails iff no element is kept.
C24_InvalidElementsDroppedIndividually ==
    [][(gpc = "parse" /\ response.kind = "array") =>
          IF RemainingElements(response.items) # <<>>
          THEN /\ failedAt' = 0
               /\ parsed' = Append(parsed, RemainingElements(response.items))
          ELSE /\ failedAt' # 0
               /\ parsed' = parsed]_vars

\* -------------------------------------------------------------------------
\*  Claims about the coverage estimate
\* -------------------------------------------------------------------------

\* the reply of the model service holds an integer
ReplyHoldsInteger(o) == o.kind = "text" /\ FindAllDigits(o.text) # <<>>

\* C25: whatever the requirement text, the count generated_count >= 0 already
\* generated and the outcome of the model call (a reply with an integer, a
\* reply without one, a failure), estimate_required_test_cases does not raise
\* and returns an integer that is not below generated_count; when the reply
\* holds an integer the value is the larger of the first integer of the reply
\* and generated_count.
C25_EstimateNotBelowGenerated ==
    estimated =>
        /\ est_out.raised = None
        /\ est_out.value \in Nat
        /\ est_out.value >= est_in.generated_count
        /\ ReplyHoldsInteger(est_in.outcome) =>
              /\ est_out.path = "model"
              /\ est_out.value =
                    Max(ParseInt(FindAllDigits(est_in.outcome.text)[1]),
                        est_in.generated_count)

\* a short requirement text with 200 records generated and a failed model
\* call: the heuristic's own figure, 30, is below 200 and 300 is returned
C25_Witness ==
    /\ estimated
    /\ est_in.outcome.kind = "raises"
    /\ est_in.generated_count = 200
    /\ est_in.brd_content = [len |-> 0, ui |-> 0]
    /\ est_out.path = "heuristic"
    /\ est_out.value = 300

\* -------------------------------------------------------------------------
\*  Claims about the configuration stores
\* -------------------------------------------------------------------------

\* C26: however the calls of get_locator_manager, and of get_url_manager, by
\* the threads of one process interleave, the module-level singleton is
\* assigned at most once, its backing table is loaded at most once, and every
\* caller receives the same instance.
C26_SingletonAssignedOnce ==
    \A m \in Managers :
        /\ assigns[m] <= 1
        /\ loads[m] <= 1
        /\ Cardinality(received[m]) <= 1

\* the table holds no value for (category, key)
NotLoaded(table, category, key) ==
    ~(table.t = "dict" /\ \E e \in table.entries : e[1] = category /\ e[2] = key)

\* the table holds no category (module) of that name
CategoryNotLoaded(table, category) == ~(table.t = "dict" /\ category \in table.keys)

\* C27: once a store is constructed, whatever its load met (no file, a parse
\* error, an empty document, a document that is not a mapping), its backing
\* table is a mapping; for a category and key that were not loaded, get
\* returns None (absent), get_all and get_all_urls return an empty dict and has
\* returns False; and no lookup raises.
C27_LoadFailureIsEmptyTable ==
    /\ lm_built => locators.t = "dict"
    /\ um_built => urls.t = "dict"
    /\ looked.ret.t # "raise"
    /\ (looked.op = "locator.get" /\ NotLoaded(locators, looked.a1, looked.a2)) =>
          looked.ret = PyNone
    /\ (looked.op = "locator.has" /\ NotLoaded(locators, looked.a1, looked.a2)) =>
          looked.ret = PyBool(FALSE)
    /\ (looked.op = "locator.get_all" /\ CategoryNotLoaded(locators, looked.a1)) =>
          looked.ret = PyDict({})
    /\ (looked.op \in {"url.get", "url.get_path"}
            /\ NotLoaded(urls, looked.a1, looked.a2)) =>
          looked.ret = PyNone
    /\ (looked.op = "url.get_all_urls" /\ CategoryNotLoaded(urls, looked.a1)) =>
          looked.ret = PyDict({})

\* (module, action) is in the URL table
InUrlTable(module, action) ==
    urls.t = "dict" /\ \E e \in urls.entries : e[1] = module /\ e[2] = action

\* the path template the table holds for (module, action)
TemplateOf(module, action) ==
    (CHOOSE e \in urls.entries : e[1] = module /\ e[2] = action)[3]

\* the template with the placeholders whose names are among the kwargs
\* replaced by their values and every other piece left as it is
Substituted(path, kwargs) ==
    LET tokens == Tokens(path)
        supplied(tok) == \E i \in 1..Len(kwargs) : tok = "{" \o kwargs[i][1] \o "}"
        valueOf(tok) ==
            kwargs[CHOOSE i \in 1..Len(kwargs) : tok = "{" \o kwargs[i][1] \o "}"][2]
    IN Join([i \in 1..Len(tokens) |->
                IF supplied(tokens[i]) THEN valueOf(tokens[i]) ELSE tokens[i]])

\* C28: URLManager.get(module, action, **kwargs) returns None (absent) iff the
\* module or the action is not in the table; otherwise it returns base_url
\* followed by the path template with the supplied {name} placeholders
\* replaced by their values and the others left verbatim; and its value is
\* base_url followed by what get_path returns for the same arguments.
C28_UrlLookup ==
    looked.op = "url.get" =>
        /\ (looked.ret = PyNone) <=> ~InUrlTable(looked.a1, looked.a2)
        /\ InUrlTable(looked.a1, looked.a2) =>
              looked.ret =
                  PyStr(base_url \o Substituted(TemplateOf(looked.a1, looked.a2),
                                                looked.kwargs))
        /\ LET p == URLManager_get_path(urls, looked.a1, looked.a2, looked.kwargs)
           IN IF p = PyNone THEN looked.ret = PyNone
              ELSE looked.ret = PyStr(base_url \o p.s)

\* -------------------------------------------------------------------------
\*  Claims about the code generator
\* -------------------------------------------------------------------------

\* the categories of the locator bundle in the request
BundleCategories == {p[1] : p \in sent.locators}

\* C29: whenever generate_code sends a request, its locator bundle has the
\* categories login, contract and common, and besides them the category of
\* the module the test case was classified as iff that module is lead or
\* product; for deeplink, report, settings and profile it has the three only.
C29_LocatorBundleCategories ==
    sent.sent =>
        LET module == _detect_module(gen_in)
        IN /\ {"login", "contract", "common"} \subseteq BundleCategories
           /\ module \in {"lead", "product"} =>
                 BundleCategories = {"login", "contract", "common", module}
           /\ module \notin {"lead", "product"} =>
                 BundleCategories = {"login", "contract", "common"}
           /\ module \in {"deeplink", "report", "settings", "profile"} =>
                 module \notin BundleCategories

\* a test case classified as product was sent with a product category, here
\* an empty one because the locators file has a `product:` key without children
C29_Witness ==
    /\ sent.sent
    /\ gen_in.description = "Add Product"
    /\ sent.module = "product"
    /\ locators = LocatorsNullProduct
    /\ <<"product", PyDict({})>> \in sent.locators
    /\ Cardinality(BundleCategories) = 4

\* the test ids in lower case
LowercasedId(id) ==
    CASE id = "TC001" -> "tc001"
      [] id = "Tc002" -> "tc002"
      [] OTHER -> id

\* test_<lowercased id> for the test case in hand
EntryPointName == "test_" \o LowercasedId(gen_in.test_id)

\* the saved file was loaded and defines no function of the entry-point name
LoadedWithoutEntryPoint ==
    /\ cpc = "ran"
    /\ saved.exists
    /\ saved.code.importable
    /\ saved.code.defines # EntryPointName

\* C30: for every test id, the name the request asks the model to define is
\* test_<lowercased id>, the file save_generated_code writes is
\* <output_dir>/test_<lowercased id>.py, and the execution engine looks for
\* that same name: a loaded file that lacks it gives a FAIL result whose error
\* names it, and a loaded file that has it is not reported as lacking it.
C30_EntryPointNaming ==
    /\ sent.sent => sent.function_name = EntryPointName
    /\ (cpc \in {"saved", "ran"} /\ saved.exists) =>
          saved.path = "tests/generated/" \o EntryPointName \o ".py"
    /\ LoadedWithoutEntryPoint =>
          /\ run_out.status = "FAIL"
          /\ run_out.error_message =
                "Test function '" \o EntryPointName \o "' not found in module"
    /\ (cpc = "ran" /\ saved.exists /\ saved.code.importable
            /\ saved.code.defines = EntryPointName) =>
          run_out.error_message #
                "Test function '" \o EntryPointName \o "' not found in module"
    /\ cpc = "ran" => run_out.status \in {"PASS", "FAIL"}

\* the reply for TC001 defined test_TC001, the file was saved and loaded, and
\* the run failed naming test_tc001
C30_Witness ==
    /\ LoadedWithoutEntryPoint
    /\ gen_in.test_id = "TC001"
    /\ saved.path = "tests/generated/test_tc001.py"
    /\ saved.code.defines = "test_TC001"
    /\ run_out.status = "FAIL"
    /\ run_out.error_message = "Test function 'test_tc001' not found in module"

\* floor(base * (1 + min(k / 20, 2.0) * 0.5)) in exact arithmetic:
\* base * (40 + min(k, 40)) / 40, rounded down
ExactUiEstimate(base, k) == (base * (40 + Min(k, 40))) \div 40

\* the keyword counts of the requirement texts
KeywordCounts == {b.ui : b \in BrdContents}

\* C31: the fallback estimate equals
\* max(floor(base * (1 + f * 0.5)), floor(1.5 * generated_count)), base being
\* 30 below 5000 characters, 60 below 15000 and 100 otherwise and
\* f = min(k / 20, 2.0) for k keyword occurrences; with generated_count = 0
\* it lies between base and 2 * base, and it does not decrease as k grows.
C31_HeuristicClosedForm ==
    (estimated /\ est_out.path = "heuristic") =>
        LET len == est_in.brd_content.len
            k == est_in.brd_content.ui
            g == est_in.generated_count
            base == IF len < 5000 THEN 30 ELSE IF len < 15000 THEN 60 ELSE 100
        IN /\ est_out.value = Max(ExactUiEstimate(base, k), (3 * g) \div 2)
           /\ g = 0 => (base <= est_out.value /\ est_out.value <= 2 * base)
           /\ \A k2 \in KeywordCounts :
                 k <= k2 =>
                    est_out.value <=
                        _estimate_by_heuristic([len |-> len, ui |-> k2], g)

\* -------------------------------------------------------------------------
\*  Further claims about the result reporter
\* -------------------------------------------------------------------------

TruncationMarker == "... (truncated)"

\* the length of a text written to the error cell
ErrorTextLen(v) ==
    IF v = LongMessageHead \o TruncationMarker
    THEN MessageLen(LongMessageHead) + Len(TruncationMarker)
    ELSE MessageLen(v)

\* the update_cell calls of the finished call on column 7
ErrorWrites == {k \in 1..Len(reported.writes) : reported.writes[k].col = 7}

\* C32: the error text report_result writes to column 7 is the error message
\* of the result when that has at most 1000 characters, and its first 1000
\* characters followed by the truncation marker otherwise; it is never longer
\* than 1000 characters plus the marker.
C32_ErrorTextTruncation ==
    ReportDone =>
        \A k \in ErrorWrites :
            LET m == Get(reported.result, "error_message", "")
                v == reported.writes[k].value
            IN /\ Truthy(m) =>
                    IF MessageLen(m) <= 1000
                    THEN v = m
                    ELSE v = First1000(m) \o TruncationMarker
               /\ ErrorTextLen(v) <= 1000 + Len(TruncationMarker)

\* a message of exactly 1000 characters was written whole, and the one of
\* 1001 characters is in the sheet cut to 1000 characters and the marker
C32_Witness ==
    /\ ReportDone
    /\ reported.result.error_message = LongMessageHead
    /\ \E k \in ErrorWrites :
          reported.writes[k].ok /\ reported.writes[k].value = LongMessageHead
    /\ cells[5][7] = LongMessageHead \o TruncationMarker

\* -------------------------------------------------------------------------
\*  Further claims about the sheet reader
\* -------------------------------------------------------------------------

\* the worksheet of the finished read with row 3 replaced by h
WithHeaderRow(h) == [read_in.all_values EXCEPT ![3] = h]

\* the same read_test_cases call on another worksheet
ReadAgain(all_values) ==
    read_test_cases(read_in.connected, read_in.co, read_in.ro, "E1", "Sheet1",
                    all_values)

\* C33: the outcome of read_test_cases does not depend on the header row: two
\* worksheets of at least 4 rows that differ only in the contents or length of
\* row 3 give the same success flag and the same list of test cases.
C33_HeaderRowIndependence ==
    (ReadDone /\ Len(read_in.all_values) >= 4) =>
        \A h \in ReaderHeaderRows :
            /\ ReadAgain(WithHeaderRow(h)).success = read_out.success
            /\ ReadAgain(WithHeaderRow(h)).test_cases = read_out.test_cases

\* a worksheet whose header row matches no expected header was read, and its
\* test case came out
C33_Witness ==
    /\ ReadDone
    /\ Len(read_in.all_values) >= 4
    /\ read_in.all_values[3] = <<"ID">>
    /\ ValidateHeaders(read_in.all_values[3]).warnings = 1..5
    /\ read_out.success
    /\ Len(read_out.test_cases) = 1

\* -------------------------------------------------------------------------
\*  Claims about batch code generation
\* -------------------------------------------------------------------------

\* min(len(test_cases), max_count)
ToProcess == Min(Len(batch_args.test_cases), batch_args.max_count)

\* the results whose success flag is true
Successes(rs) == {k \in 1..Len(rs) : rs[k].success}

\* C34: generate_batch processes the first min(len(test_cases), max_count)
\* test cases strictly in input order, one generate_code call being finished
\* before the next starts; a failed generation does not stop the loop; the
\* results list has one entry per processed test case in the same order, and
\* success_count is the number of entries whose success flag is true.
C34_BatchSequential ==
    /\ Len(started) <= ToProcess
    /\ \A k \in 1..Len(started) : started[k] = batch_args.test_cases[k].test_id
    /\ \A k \in 1..Len(results) : results[k].test_case = batch_args.test_cases[k]
    /\ Len(started) = Len(results) + (IF bpc = "call" THEN 1 ELSE 0)
    /\ bpc = "done" =>
          /\ batch_ret.returned
          /\ batch_ret.results = results
          /\ Len(batch_ret.results) = ToProcess
          /\ batch_ret.success_count = Cardinality(Successes(batch_ret.results))

\* of three test cases with max_count 2 the first generation failed and the
\* second succeeded: two results in input order, one success counted, and the
\* third test case never started
C34_Witness ==
    /\ bpc = "done"
    /\ Len(batch_args.test_cases) = 3
    /\ batch_args.max_count = 2
    /\ batch_args.test_cases[1] # batch_args.test_cases[2]
    /\ Len(batch_ret.results) = 2
    /\ ~batch_ret.results[1].success
    /\ batch_ret.results[2].success
    /\ batch_ret.success_count = 1
    /\ Len(started) = 2

\* -------------------------------------------------------------------------
\*  Further claims about the Batch Test-Case Generation Engine
\* -------------------------------------------------------------------------

\* generate_test_cases has returned
GenDone == gpc = "done"

\* the three entries of a breakdown
BreakdownEntries(b) == <<b.batch1_happy_path, b.batch2_validation, b.batch3_edge_cases>>

\* C35: in every breakdown generate_test_cases returns (3-batch complete,
\* 3-batch degraded, single-batch) the three batch counts sum to the length of
\* the returned list, and a batch has percentage 0.0 iff its count is 0.
C35_BreakdownCounts ==
    (GenDone /\ gRet.breakdown # NoneDict) =>
        LET e == BreakdownEntries(gRet.breakdown)
        IN /\ e[1].count + e[2].count + e[3].count = Len(gRet.test_cases)
           /\ \A k \in 1..3 : (e[k].percentage = 0) <=> (e[k].count = 0)

\* all three batches returned records, 1, 2 and 2 of them: the counts sum to
\* the 5 records returned and batch 1 has 20.0 percent
C35_Witness ==
    /\ GenDone
    /\ gRet.breakdown # NoneDict
    /\ failedAt = 0
    /\ batch = 3
    /\ gRet.breakdown.batch1_happy_path.count = 1
    /\ gRet.breakdown.batch2_validation.count = 2
    /\ gRet.breakdown.batch3_edge_cases.count = 2
    /\ gRet.breakdown.batch1_happy_path.percentage = 200
    /\ Len(gRet.test_cases) = 5

\* the three shapes of a return of generate_test_cases
FailureShape(r) ==
    /\ ~r.success
    /\ r.test_cases = <<>>
    /\ r.error # None
    /\ r.breakdown = NoneDict
CompleteShape(r) ==
    /\ r.success
    /\ r.test_cases # <<>>
    /\ r.error = None
    /\ r.breakdown # NoneDict
DegradedShape(r) ==
    /\ r.success
    /\ r.test_cases # <<>>
    /\ r.error \notin {None, ""}
    /\ r.breakdown # NoneDict

\* C36: every return of generate_test_cases is a failure with an empty list,
\* an error and no breakdown; or a success with a non-empty list, no error
\* and a breakdown, when every issued batch succeeded; or a success with a
\* non-empty list, an error message and a breakdown, exactly when batch 2 or
\* batch 3 failed after batch 1 succeeded. Success with an empty list and
\* failure with a breakdown do not occur.
C36_ReturnShapes ==
    GenDone =>
        /\ FailureShape(gRet) \/ CompleteShape(gRet) \/ DegradedShape(gRet)
        /\ failedAt = 0 => CompleteShape(gRet)
        /\ DegradedShape(gRet) <=> (failedAt \in {2, 3} /\ batch \in {2, 3})
        /\ ~(gRet.success /\ gRet.test_cases = <<>>)
        /\ ~(~gRet.success /\ gRet.breakdown # NoneDict)

\* a single-batch run returned its records with a breakdown, no error set
C36_Witness ==
    /\ GenDone
    /\ batch = 0
    /\ failedAt = 0
    /\ CompleteShape(gRet)
    /\ gRet.breakdown.batch1_happy_path.count = Len(gRet.test_cases)

\* -------------------------------------------------------------------------
\*  Further claims about the Automation Execution Engine
\* -------------------------------------------------------------------------

\* run_single_test has returned lastResult
SingleTestReturned == pc = "idle" /\ calls > 0

\* C37: in every result run_single_test returns, status PASS implies that
\* error_message and screenshot_path are both None; an error message or a
\* screenshot path appears only in FAIL results; and execution_time holds the
\* time the finally block measured, after the early returns for a failed
\* browser start and a failed login too.
C37_ResultFields ==
    SingleTestReturned =>
        /\ lastResult.status = "PASS" =>
              (lastResult.error_message = None /\ lastResult.screenshot_path = None)
        /\ (lastResult.error_message # None \/ lastResult.screenshot_path # None) =>
              lastResult.status = "FAIL"
        /\ hist.elapsed \in 0..MaxElapsed
        /\ lastResult.execution_time = hist.elapsed

\* the second call of a runner returned PASS, one second after it began
C37_Witness ==
    /\ SingleTestReturned
    /\ calls = 2
    /\ lastResult.status = "PASS"
    /\ hist.branch = "passed"
    /\ lastResult.execution_time = 1

\* the cells the update_cell calls of the finished report_result call aimed
\* at, whether or not the call went through
DataCellsWritten ==
    {<<reported.writes[k].row, reported.writes[k].col>> : k \in 1..Len(reported.writes)}

\* the header cells the last _ensure_result_columns run wrote
HeaderCellsWritten ==
    {<<ensured.updates[k].row, ensured.updates[k].col>> : k \in 1..Len(ensured.updates)}

\* C38: a report_result call for a test case at row r writes to no cell other
\* than (r,6), (r,7), (r,8) and the header cells (3,7) and (3,8): the result
\* cells of every other row and the header cells of columns 1 to 6 are left as
\* they were, whether the call succeeds or fails.
C38_ReportFrame ==
    /\ ReportDone =>
          LET r == reported.test_case.row_number
          IN /\ DataCellsWritten \subseteq {<<r, 6>>, <<r, 7>>, <<r, 8>>}
             /\ \A row \in Rows \ {r} : cells[row] = reported.before[row]
    /\ ensured.n > 0 =>
          /\ HeaderCellsWritten \subseteq {<<3, 7>>, <<3, 8>>}
          /\ \A c \in 1..6 : ensured.after[c] = ensured.before[c]
          /\ \A c \in {7, 8} :
                ensured.after[c] # ensured.before[c] => <<3, c>> \in HeaderCellsWritten
    /\ rpc # "new" =>
          /\ SubSeq(header_row, 1, 5) =
                <<"Test ID", "Description", "Steps", "Expected Result", "Priority">>
          /\ header_row[6] \in {"", "Result"}

\* a report for row 5 wrote its three result cells and the two header cells,
\* and left the result cells of row 4, written by an earlier report, alone
C38_Witness ==
    /\ ReportDone
    /\ reported.ret
    /\ reported.test_case.row_number = 5
    /\ DataCellsWritten = {<<5, 6>>, <<5, 7>>, <<5, 8>>}
    /\ cells[4][6] = "PASS"
    /\ cells[4] = reported.before[4]
    /\ ensured.before[6] = ""
    /\ header_row[6] = ""
    /\ header_row[7] = "Error Message"
====
